---- MODULE Spec2Model ----
(***************************************************************************)
(* clownresampler (src/clownresampler.h): a windowed-sinc resampler with   *)
(* a Lanczos window, in 16.16 fixed point.                                 *)
(*                                                                         *)
(* The module models the low-level API (ClownResampler_LowLevel_Init,      *)
(* _Adjust, _Resample) driven by a caller that owns a padded buffer, and   *)
(* the high-level API (ClownResampler_HighLevel_Init, _Resample,           *)
(* _ResampleEnd) driven by a producer callback.  One step of a resample    *)
(* call runs from one callback invocation to the next; the callbacks'      *)
(* answers are the nondeterministic inputs.                                *)
(*                                                                         *)
(* Numbers: TLC integers are signed 32-bit and TLC stops with an error on  *)
(* overflow, so a run that completes has kept every intermediate value     *)
(* below 2^31 and therefore inside every C type the code uses (cc_u32f,    *)
(* cc_s32f and size_t are at least 32 bits wide); '|=' of two values with  *)
(* disjoint bits is written '+'.  Signed division truncates toward zero    *)
(* as in C (CDiv); unsigned division is \div.                              *)
(***************************************************************************)
EXTENDS Integers, Sequences, FiniteSets, TLC

(* ---------------- compile-time configuration ---------------- *)

KERNEL_RADIUS == 3

KERNEL_RESOLUTION == 1024

MAXIMUM_CHANNELS == 16

FIXED_POINT_FRACTIONAL_SIZE == 65536

\* CLOWNRESAMPLER_COUNT_OF(resampler->input_buffer)
INPUT_BUFFER_COUNT == 4096

\* CLOWNRESAMPLER_COUNT_OF(precomputed->lanczos_kernel_table)
KERNEL_TABLE_COUNT == KERNEL_RADIUS * 2 * KERNEL_RESOLUTION

(* ---------------- bounds of the model ---------------- *)

\* the longest input (in frames) a session of the low-level API resamples
MaxInputFrames == 3

\* the longest input (in frames) the producer of a high-level session holds:
\* more than integer_stretched_kernel_radius, so that refills move real frames
MaxStreamFrames == 5

\* the delivered frames a session records in 'output' and counts in 'delivered'
\* (delivery itself is not bounded)
MaxOutputFrames == 8

\* the same for a session that measures the length of the output
MaxCountedFrames == 260

\* the Adjust calls of one session
MaxAdjusts == 1

\* <<input_sample_rate, output_sample_rate, low_pass_filter_sample_rate>>
RateChoices ==
  { <<1, 1, 1>>, <<2, 1, 1>>, <<1, 2, 1>>, <<3, 2, 3>>, <<0, 1, 1>>, <<1, 0, 1>>,
    <<1, 65537, 1>> }

\* the rates of the sessions that measure the length of the output
LengthRateChoices == { <<1, 1, 1>>, <<2, 1, 1>>, <<1, 2, 1>>, <<3, 2, 3>>, <<511, 131072, 511>> }

ChannelChoices == {1, 2}

PatternChoices == {"ramp", "alternating"}

\* the input of the sessions that resample silence
SilencePatternChoices == {"silence"}

\* the rates with input_sample_rate = output_sample_rate <= low_pass_filter_sample_rate
IdentityRateChoices == { <<1, 1, 1>>, <<2, 2, 3>>, <<3, 3, 3>> }

\* the rates ClownResampler_ComputeFrame is called on by itself with: the
\* last is the downsampling at which the accumulators come closest to the
\* end of their range
OverflowRateChoices ==
  { <<1, 1, 1>>, <<2, 1, 1>>, <<3, 2, 3>>, <<160, 147, 147>>, <<630, 1, 1>> }

\* the values of position_fractional it is called with
OverflowFractionChoices == { 0, 1, 14990, 31553, 32768, 65535 }

\* the input of that call: every sample at the end of the 16-bit range that
\* makes its tap's term positive ("highest") or negative ("lowest"), or
\* every sample -32768 ("least")
InputPolarities == { "highest", "lowest", "least" }

\* the greatest value of a 32-bit cc_s32f; the least is -MaxS32 - 1
MaxS32 == 2147483647

\* the rates a constant input is resampled at: low_pass_filter_sample_rate
\* is at least the lower of the other two in each
ConstantRateChoices ==
  { <<1, 1, 1>>, <<1, 2, 1>>, <<2, 1, 1>>, <<3, 2, 3>>, <<2, 3, 2>>, <<160, 147, 147>> }

\* the values of the constant input
ConstantValueChoices == { 32767, 1000, 100, -32767 }

\* the frames since Init whose value is computed
ConstantFrameChoices == 0 .. 5

\* the values ClownResampler_CalculateRatio is called on by itself
RatioOperandChoices ==
  {1, 2, 3, 511, 22050, 44100, 48000, 65535, 65536, 65537, 96000, 131072, 192000}

\* the rates, in lowest terms, and the factors they are multiplied by when
\* ClownResampler_LowLevel_Init is called on its own
ScaledRateChoices ==
  { <<1, 1, 1>>, <<1, 2, 1>>, <<2, 1, 1>>, <<3, 2, 3>>, <<2, 3, 2>>, <<1, 2, 2>>,
    <<2, 1, 2>>, <<3, 1, 2>> }

ScaleChoices == {1, 2, 3, 22050, 44100, 48000, 65536, 96000}

\* the rates of the sessions that change their rates in mid-stream: the
\* increments are 1.5, 1 and 0.5 input frames per output frame
CarryRateChoices == { <<3, 2, 3>>, <<1, 1, 1>>, <<1, 2, 1>> }

\* the rates of the high-level sessions that call ClownResampler_HighLevel_Adjust
AdjustRateChoices == { <<1, 1, 1>>, <<2, 1, 1>>, <<4, 2, 4>>, <<4, 2, 1>> }

\* the arguments of the sessions that only configure a resampler: the
\* kernel radius of <<43, 1, 1>> is 129 and that of <<2048, 1, 1>> is 6144
ConfigRateChoices ==
  { <<1, 1, 1>>, <<2, 1, 1>>, <<4, 2, 4>>, <<4, 2, 1>>, <<0, 1, 1>>, <<43, 1, 1>>,
    <<2048, 1, 1>> }

ConfigChannelChoices == {0, 1, 2, MAXIMUM_CHANNELS, MAXIMUM_CHANNELS + 1}

\* the value of sample 'c' of frame 'i' of the input
SourceSample(pattern, i, c) ==
  IF pattern = "silence" THEN 0
  ELSE IF pattern = "ramp" THEN 1000 * (i + 1) + 100 * c
  ELSE IF i % 2 = 0 THEN 20000 - c ELSE -20000 + c

\* the content of storage that was never written: no cc_s16l holds this value
Indeterminate == -FIXED_POINT_FRACTIONAL_SIZE

(* ---------------- helpers ---------------- *)

CLOWNRESAMPLER_MIN(a, b) == IF a < b THEN a ELSE b

CLOWNRESAMPLER_MAX(a, b) == IF a > b THEN a ELSE b

\* C's signed division (truncation toward zero), b > 0
CDiv(a, b) == IF a >= 0 THEN a \div b ELSE -((-a) \div b)

TO_FIXED_POINT_FROM_INTEGER(x) == x * FIXED_POINT_FRACTIONAL_SIZE

TO_INTEGER_FROM_FIXED_POINT_FLOOR(x) == x \div FIXED_POINT_FRACTIONAL_SIZE

TO_INTEGER_FROM_FIXED_POINT_CEILING(x) ==
  (x + (FIXED_POINT_FRACTIONAL_SIZE - 1)) \div FIXED_POINT_FRACTIONAL_SIZE

FIXED_POINT_MULTIPLY(a, b) == CDiv(a * b, FIXED_POINT_FRACTIONAL_SIZE)

RECURSIVE Exponent2(_)
Exponent2(n) == IF n = 0 THEN 1 ELSE 2 * Exponent2(n - 1)

SetMax(S) == CHOOSE x \in S : \A y \in S : y <= x

(* ---------------- the precomputed kernel ---------------- *)

\* ClownResampler_Precompute's result: entry i of the C array is
\* lanczos_kernel_table[i + 1].  The values are those the double-precision
\* computation of the source yields, truncated to integers.
lanczos_kernel_table ==
  <<
     0, 0, 0, 0, 0, 0, 0, 0, 0, 0, 0, 0, 1, 1, 1, 1,
     1, 2, 2, 2, 2, 3, 3, 3, 4, 4, 4, 5, 5, 5, 6, 6,
     7, 7, 8, 8, 9, 9, 10, 10, 11, 11, 12, 13, 13, 14, 15, 15,
     16, 17, 17, 18, 19, 20, 20, 21, 22, 23, 24, 24, 25, 26, 27, 28,
     29, 30, 31, 32, 33, 34, 35, 36, 37, 38, 39, 40, 41, 42, 44, 45,
     46, 47, 48, 49, 51, 52, 53, 54, 56, 57, 58, 60, 61, 62, 64, 65,
     67, 68, 69, 71, 72, 74, 75, 77, 78, 80, 82, 83, 85, 86, 88, 90,
     91, 93, 95, 96, 98, 100, 102, 103, 105, 107, 109, 111, 112, 114, 116, 118,
     120, 122, 124, 126, 128, 130, 132, 134, 136, 138, 140, 142, 144, 146, 148, 150,
     152, 155, 157, 159, 161, 163, 166, 168, 170, 172, 175, 177, 179, 182, 184, 186,
     189, 191, 193, 196, 198, 201, 203, 206, 208, 211, 213, 216, 218, 221, 224, 226,
     229, 231, 234, 237, 239, 242, 245, 247, 250, 253, 256, 258, 261, 264, 267, 270,
     272, 275, 278, 281, 284, 287, 290, 293, 296, 299, 302, 305, 308, 311, 314, 317,
     320, 323, 326, 329, 332, 335, 338, 342, 345, 348, 351, 354, 357, 361, 364, 367,
     370, 374, 377, 380, 384, 387, 390, 394, 397, 400, 404, 407, 411, 414, 418, 421,
     424, 428, 431, 435, 438, 442, 446, 449, 453, 456, 460, 463, 467, 471, 474, 478,
     482, 485, 489, 493, 496, 500, 504, 507, 511, 515, 519, 523, 526, 530, 534, 538,
     542, 545, 549, 553, 557, 561, 565, 569, 573, 577, 580, 584, 588, 592, 596, 600,
     604, 608, 612, 616, 620, 624, 628, 632, 637, 641, 645, 649, 653, 657, 661, 665,
     669, 673, 678, 682, 686, 690, 694, 699, 703, 707, 711, 715, 720, 724, 728, 732,
     737, 741, 745, 749, 754, 758, 762, 767, 771, 775, 780, 784, 788, 793, 797, 801,
     806, 810, 815, 819, 823, 828, 832, 837, 841, 845, 850, 854, 859, 863, 868, 872,
     877, 881, 886, 890, 894, 899, 903, 908, 912, 917, 921, 926, 931, 935, 940, 944,
     949, 953, 958, 962, 967, 971, 976, 980, 985, 990, 994, 999, 1003, 1008, 1012, 1017,
     1022, 1026, 1031, 1035, 1040, 1045, 1049, 1054, 1058, 1063, 1068, 1072, 1077, 1081, 1086, 1091,
     1095, 1100, 1104, 1109, 1114, 1118, 1123, 1127, 1132, 1137, 1141, 1146, 1150, 1155, 1160, 1164,
     1169, 1174, 1178, 1183, 1187, 1192, 1197, 1201, 1206, 1210, 1215, 1220, 1224, 1229, 1233, 1238,
     1243, 1247, 1252, 1256, 1261, 1265, 1270, 1275, 1279, 1284, 1288, 1293, 1297, 1302, 1306, 1311,
     1315, 1320, 1325, 1329, 1334, 1338, 1343, 1347, 1352, 1356, 1361, 1365, 1370, 1374, 1379, 1383,
     1387, 1392, 1396, 1401, 1405, 1410, 1414, 1419, 1423, 1427, 1432, 1436, 1441, 1445, 1449, 1454,
     1458, 1462, 1467, 1471, 1475, 1480, 1484, 1488, 1493, 1497, 1501, 1506, 1510, 1514, 1518, 1523,
     1527, 1531, 1535, 1539, 1544, 1548, 1552, 1556, 1560, 1564, 1569, 1573, 1577, 1581, 1585, 1589,
     1593, 1597, 1601, 1605, 1609, 1613, 1617, 1621, 1625, 1629, 1633, 1637, 1641, 1645, 1649, 1653,
     1657, 1661, 1665, 1668, 1672, 1676, 1680, 1684, 1687, 1691, 1695, 1699, 1702, 1706, 1710, 1714,
     1717, 1721, 1724, 1728, 1732, 1735, 1739, 1742, 1746, 1750, 1753, 1757, 1760, 1764, 1767, 1770,
     1774, 1777, 1781, 1784, 1787, 1791, 1794, 1797, 1801, 1804, 1807, 1810, 1814, 1817, 1820, 1823,
     1826, 1830, 1833, 1836, 1839, 1842, 1845, 1848, 1851, 1854, 1857, 1860, 1863, 1866, 1869, 1872,
     1874, 1877, 1880, 1883, 1886, 1888, 1891, 1894, 1896, 1899, 1902, 1904, 1907, 1910, 1912, 1915,
     1917, 1920, 1922, 1925, 1927, 1929, 1932, 1934, 1937, 1939, 1941, 1943, 1946, 1948, 1950, 1952,
     1954, 1957, 1959, 1961, 1963, 1965, 1967, 1969, 1971, 1973, 1975, 1977, 1979, 1980, 1982, 1984,
     1986, 1988, 1989, 1991, 1993, 1994, 1996, 1997, 1999, 2001, 2002, 2004, 2005, 2006, 2008, 2009,
     2011, 2012, 2013, 2014, 2016, 2017, 2018, 2019, 2020, 2021, 2023, 2024, 2025, 2026, 2027, 2028,
     2028, 2029, 2030, 2031, 2032, 2033, 2033, 2034, 2035, 2035, 2036, 2036, 2037, 2038, 2038, 2039,
     2039, 2039, 2040, 2040, 2040, 2041, 2041, 2041, 2041, 2041, 2042, 2042, 2042, 2042, 2042, 2042,
     2042, 2042, 2041, 2041, 2041, 2041, 2041, 2040, 2040, 2040, 2039, 2039, 2038, 2038, 2037, 2037,
     2036, 2036, 2035, 2034, 2034, 2033, 2032, 2031, 2030, 2029, 2029, 2028, 2027, 2026, 2024, 2023,
     2022, 2021, 2020, 2019, 2017, 2016, 2015, 2013, 2012, 2010, 2009, 2007, 2006, 2004, 2003, 2001,
     1999, 1998, 1996, 1994, 1992, 1990, 1988, 1986, 1984, 1982, 1980, 1978, 1976, 1974, 1972, 1969,
     1967, 1965, 1962, 1960, 1957, 1955, 1952, 1950, 1947, 1945, 1942, 1939, 1936, 1934, 1931, 1928,
     1925, 1922, 1919, 1916, 1913, 1910, 1907, 1904, 1900, 1897, 1894, 1890, 1887, 1884, 1880, 1877,
     1873, 1870, 1866, 1862, 1859, 1855, 1851, 1847, 1843, 1839, 1836, 1832, 1828, 1823, 1819, 1815,
     1811, 1807, 1803, 1798, 1794, 1789, 1785, 1781, 1776, 1771, 1767, 1762, 1758, 1753, 1748, 1743,
     1738, 1733, 1729, 1724, 1719, 1713, 1708, 1703, 1698, 1693, 1688, 1682, 1677, 1671, 1666, 1661,
     1655, 1649, 1644, 1638, 1632, 1627, 1621, 1615, 1609, 1603, 1597, 1591, 1585, 1579, 1573, 1567,
     1561, 1555, 1548, 1542, 1535, 1529, 1523, 1516, 1509, 1503, 1496, 1490, 1483, 1476, 1469, 1462,
     1455, 1448, 1441, 1434, 1427, 1420, 1413, 1406, 1399, 1391, 1384, 1376, 1369, 1362, 1354, 1346,
     1339, 1331, 1323, 1316, 1308, 1300, 1292, 1284, 1276, 1268, 1260, 1252, 1244, 1236, 1228, 1219,
     1211, 1203, 1194, 1186, 1177, 1169, 1160, 1151, 1143, 1134, 1125, 1116, 1108, 1099, 1090, 1081,
     1072, 1063, 1054, 1044, 1035, 1026, 1017, 1007, 998, 988, 979, 969, 960, 950, 941, 931,
     921, 911, 901, 892, 882, 872, 862, 852, 842, 831, 821, 811, 801, 790, 780, 770,
     759, 749, 738, 727, 717, 706, 695, 685, 674, 663, 652, 641, 630, 619, 608, 597,
     586, 575, 563, 552, 541, 529, 518, 507, 495, 483, 472, 460, 449, 437, 425, 413,
     401, 389, 378, 366, 354, 341, 329, 317, 305, 293, 280, 268, 256, 243, 231, 218,
     206, 193, 181, 168, 155, 143, 130, 117, 104, 91, 78, 65, 52, 39, 26, 13,
     0, -13, -26, -39, -53, -66, -80, -93, -107, -120, -134, -148, -161, -175, -189, -203,
     -216, -230, -244, -258, -272, -286, -301, -315, -329, -343, -357, -372, -386, -400, -415, -429,
     -444, -458, -473, -488, -502, -517, -532, -546, -561, -576, -591, -606, -621, -636, -651, -666,
     -681, -696, -711, -727, -742, -757, -773, -788, -803, -819, -834, -850, -865, -881, -897, -912,
     -928, -944, -960, -975, -991, -1007, -1023, -1039, -1055, -1071, -1087, -1103, -1119, -1135, -1152, -1168,
     -1184, -1200, -1217, -1233, -1250, -1266, -1282, -1299, -1316, -1332, -1349, -1365, -1382, -1399, -1415, -1432,
     -1449, -1466, -1483, -1500, -1517, -1533, -1550, -1567, -1585, -1602, -1619, -1636, -1653, -1670, -1688, -1705,
     -1722, -1739, -1757, -1774, -1792, -1809, -1827, -1844, -1862, -1879, -1897, -1914, -1932, -1950, -1967, -1985,
     -2003, -2021, -2038, -2056, -2074, -2092, -2110, -2128, -2146, -2164, -2182, -2200, -2218, -2236, -2254, -2272,
     -2291, -2309, -2327, -2345, -2364, -2382, -2400, -2419, -2437, -2455, -2474, -2492, -2511, -2529, -2548, -2566,
     -2585, -2603, -2622, -2641, -2659, -2678, -2697, -2715, -2734, -2753, -2772, -2790, -2809, -2828, -2847, -2866,
     -2885, -2904, -2923, -2942, -2961, -2979, -2999, -3018, -3037, -3056, -3075, -3094, -3113, -3132, -3151, -3170,
     -3190, -3209, -3228, -3247, -3266, -3286, -3305, -3324, -3344, -3363, -3382, -3402, -3421, -3440, -3460, -3479,
     -3499, -3518, -3537, -3557, -3576, -3596, -3615, -3635, -3654, -3674, -3694, -3713, -3733, -3752, -3772, -3791,
     -3811, -3831, -3850, -3870, -3890, -3909, -3929, -3948, -3968, -3988, -4008, -4027, -4047, -4067, -4086, -4106,
     -4126, -4146, -4165, -4185, -4205, -4225, -4244, -4264, -4284, -4304, -4323, -4343, -4363, -4383, -4403, -4422,
     -4442, -4462, -4482, -4502, -4522, -4541, -4561, -4581, -4601, -4621, -4640, -4660, -4680, -4700, -4720, -4740,
     -4759, -4779, -4799, -4819, -4839, -4858, -4878, -4898, -4918, -4938, -4957, -4977, -4997, -5017, -5036, -5056,
     -5076, -5096, -5116, -5135, -5155, -5175, -5194, -5214, -5234, -5254, -5273, -5293, -5313, -5332, -5352, -5372,
     -5391, -5411, -5431, -5450, -5470, -5489, -5509, -5529, -5548, -5568, -5587, -5607, -5626, -5646, -5665, -5685,
     -5704, -5724, -5743, -5763, -5782, -5801, -5821, -5840, -5859, -5879, -5898, -5917, -5937, -5956, -5975, -5994,
     -6014, -6033, -6052, -6071, -6090, -6109, -6128, -6148, -6167, -6186, -6205, -6224, -6243, -6262, -6281, -6299,
     -6318, -6337, -6356, -6375, -6394, -6412, -6431, -6450, -6469, -6487, -6506, -6525, -6543, -6562, -6580, -6599,
     -6617, -6636, -6654, -6673, -6691, -6709, -6728, -6746, -6764, -6783, -6801, -6819, -6837, -6855, -6873, -6891,
     -6910, -6928, -6945, -6963, -6981, -6999, -7017, -7035, -7053, -7070, -7088, -7106, -7123, -7141, -7159, -7176,
     -7194, -7211, -7228, -7246, -7263, -7280, -7298, -7315, -7332, -7349, -7366, -7383, -7401, -7418, -7434, -7451,
     -7468, -7485, -7502, -7519, -7535, -7552, -7569, -7585, -7602, -7618, -7635, -7651, -7668, -7684, -7700, -7716,
     -7733, -7749, -7765, -7781, -7797, -7813, -7829, -7845, -7860, -7876, -7892, -7907, -7923, -7939, -7954, -7970,
     -7985, -8000, -8016, -8031, -8046, -8061, -8076, -8092, -8107, -8121, -8136, -8151, -8166, -8181, -8195, -8210,
     -8225, -8239, -8254, -8268, -8282, -8297, -8311, -8325, -8339, -8353, -8367, -8381, -8395, -8409, -8423, -8436,
     -8450, -8464, -8477, -8491, -8504, -8517, -8531, -8544, -8557, -8570, -8583, -8596, -8609, -8622, -8635, -8647,
     -8660, -8672, -8685, -8697, -8710, -8722, -8734, -8747, -8759, -8771, -8783, -8795, -8806, -8818, -8830, -8842,
     -8853, -8865, -8876, -8887, -8899, -8910, -8921, -8932, -8943, -8954, -8965, -8976, -8986, -8997, -9007, -9018,
     -9028, -9039, -9049, -9059, -9069, -9079, -9089, -9099, -9109, -9119, -9128, -9138, -9147, -9157, -9166, -9175,
     -9184, -9194, -9203, -9211, -9220, -9229, -9238, -9246, -9255, -9263, -9272, -9280, -9288, -9296, -9304, -9312,
     -9320, -9328, -9336, -9343, -9351, -9358, -9366, -9373, -9380, -9387, -9394, -9401, -9408, -9415, -9421, -9428,
     -9434, -9441, -9447, -9453, -9459, -9465, -9471, -9477, -9483, -9488, -9494, -9499, -9505, -9510, -9515, -9520,
     -9525, -9530, -9535, -9540, -9545, -9549, -9554, -9558, -9562, -9566, -9570, -9574, -9578, -9582, -9586, -9589,
     -9593, -9596, -9599, -9603, -9606, -9609, -9612, -9614, -9617, -9620, -9622, -9624, -9627, -9629, -9631, -9633,
     -9635, -9637, -9638, -9640, -9641, -9643, -9644, -9645, -9646, -9647, -9648, -9649, -9649, -9650, -9650, -9650,
     -9651, -9651, -9651, -9651, -9650, -9650, -9650, -9649, -9648, -9648, -9647, -9646, -9645, -9643, -9642, -9641,
     -9639, -9637, -9636, -9634, -9632, -9630, -9628, -9625, -9623, -9620, -9618, -9615, -9612, -9609, -9606, -9602,
     -9599, -9596, -9592, -9588, -9585, -9581, -9577, -9572, -9568, -9564, -9559, -9555, -9550, -9545, -9540, -9535,
     -9530, -9524, -9519, -9513, -9508, -9502, -9496, -9490, -9484, -9477, -9471, -9464, -9458, -9451, -9444, -9437,
     -9430, -9422, -9415, -9408, -9400, -9392, -9384, -9376, -9368, -9360, -9351, -9343, -9334, -9325, -9317, -9308,
     -9298, -9289, -9280, -9270, -9261, -9251, -9241, -9231, -9221, -9210, -9200, -9189, -9179, -9168, -9157, -9146,
     -9135, -9123, -9112, -9100, -9089, -9077, -9065, -9053, -9041, -9028, -9016, -9003, -8990, -8977, -8964, -8951,
     -8938, -8925, -8911, -8897, -8884, -8870, -8856, -8841, -8827, -8812, -8798, -8783, -8768, -8753, -8738, -8723,
     -8707, -8692, -8676, -8660, -8644, -8628, -8612, -8596, -8579, -8562, -8546, -8529, -8512, -8494, -8477, -8460,
     -8442, -8424, -8406, -8388, -8370, -8352, -8333, -8315, -8296, -8277, -8258, -8239, -8220, -8200, -8181, -8161,
     -8141, -8121, -8101, -8081, -8060, -8040, -8019, -7998, -7977, -7956, -7935, -7914, -7892, -7870, -7849, -7827,
     -7804, -7782, -7760, -7737, -7715, -7692, -7669, -7646, -7622, -7599, -7576, -7552, -7528, -7504, -7480, -7456,
     -7431, -7407, -7382, -7357, -7332, -7307, -7282, -7256, -7231, -7205, -7179, -7153, -7127, -7101, -7074, -7048,
     -7021, -6994, -6967, -6940, -6913, -6885, -6858, -6830, -6802, -6774, -6746, -6717, -6689, -6660, -6631, -6602,
     -6573, -6544, -6515, -6485, -6455, -6426, -6396, -6366, -6335, -6305, -6274, -6244, -6213, -6182, -6151, -6119,
     -6088, -6056, -6024, -5993, -5961, -5928, -5896, -5863, -5831, -5798, -5765, -5732, -5699, -5665, -5632, -5598,
     -5564, -5530, -5496, -5462, -5427, -5393, -5358, -5323, -5288, -5253, -5218, -5182, -5147, -5111, -5075, -5039,
     -5003, -4966, -4930, -4893, -4856, -4819, -4782, -4745, -4707, -4670, -4632, -4594, -4556, -4518, -4480, -4441,
     -4402, -4364, -4325, -4286, -4246, -4207, -4167, -4128, -4088, -4048, -4008, -3968, -3927, -3887, -3846, -3805,
     -3764, -3723, -3681, -3640, -3598, -3557, -3515, -3472, -3430, -3388, -3345, -3303, -3260, -3217, -3174, -3130,
     -3087, -3043, -3000, -2956, -2912, -2868, -2823, -2779, -2734, -2689, -2645, -2599, -2554, -2509, -2463, -2418,
     -2372, -2326, -2280, -2234, -2187, -2141, -2094, -2047, -2000, -1953, -1906, -1858, -1811, -1763, -1715, -1667,
     -1619, -1570, -1522, -1473, -1425, -1376, -1327, -1277, -1228, -1178, -1129, -1079, -1029, -979, -929, -878,
     -828, -777, -726, -675, -624, -573, -522, -470, -418, -366, -314, -262, -210, -158, -105, -52,
     0, 52, 106, 159, 212, 266, 320, 374, 428, 482, 536, 590, 645, 700, 755, 810,
     865, 920, 975, 1031, 1087, 1143, 1199, 1255, 1311, 1367, 1424, 1481, 1538, 1595, 1652, 1709,
     1766, 1824, 1882, 1939, 1997, 2055, 2114, 2172, 2231, 2289, 2348, 2407, 2466, 2525, 2585, 2644,
     2704, 2763, 2823, 2883, 2944, 3004, 3064, 3125, 3186, 3246, 3307, 3368, 3430, 3491, 3553, 3614,
     3676, 3738, 3800, 3862, 3925, 3987, 4050, 4112, 4175, 4238, 4301, 4364, 4428, 4491, 4555, 4619,
     4683, 4747, 4811, 4875, 4940, 5004, 5069, 5134, 5199, 5264, 5329, 5394, 5460, 5525, 5591, 5657,
     5723, 5789, 5855, 5921, 5988, 6054, 6121, 6188, 6255, 6322, 6389, 6457, 6524, 6592, 6659, 6727,
     6795, 6863, 6931, 7000, 7068, 7137, 7205, 7274, 7343, 7412, 7481, 7551, 7620, 7690, 7759, 7829,
     7899, 7969, 8039, 8109, 8180, 8250, 8321, 8391, 8462, 8533, 8604, 8675, 8747, 8818, 8889, 8961,
     9033, 9105, 9177, 9249, 9321, 9393, 9466, 9538, 9611, 9684, 9756, 9829, 9902, 9976, 10049, 10122,
     10196, 10269, 10343, 10417, 10491, 10565, 10639, 10714, 10788, 10862, 10937, 11012, 11086, 11161, 11236, 11311,
     11387, 11462, 11537, 11613, 11689, 11764, 11840, 11916, 11992, 12068, 12144, 12221, 12297, 12374, 12450, 12527,
     12604, 12681, 12758, 12835, 12912, 12989, 13067, 13144, 13222, 13300, 13377, 13455, 13533, 13611, 13689, 13768,
     13846, 13924, 14003, 14081, 14160, 14239, 14318, 14397, 14476, 14555, 14634, 14714, 14793, 14872, 14952, 15032,
     15111, 15191, 15271, 15351, 15431, 15512, 15592, 15672, 15753, 15833, 15914, 15994, 16075, 16156, 16237, 16318,
     16399, 16480, 16561, 16643, 16724, 16806, 16887, 16969, 17050, 17132, 17214, 17296, 17378, 17460, 17542, 17624,
     17707, 17789, 17871, 17954, 18037, 18119, 18202, 18285, 18368, 18451, 18534, 18617, 18700, 18783, 18866, 18950,
     19033, 19116, 19200, 19284, 19367, 19451, 19535, 19619, 19702, 19786, 19870, 19955, 20039, 20123, 20207, 20292,
     20376, 20460, 20545, 20629, 20714, 20799, 20884, 20968, 21053, 21138, 21223, 21308, 21393, 21478, 21563, 21649,
     21734, 21819, 21905, 21990, 22076, 22161, 22247, 22332, 22418, 22504, 22589, 22675, 22761, 22847, 22933, 23019,
     23105, 23191, 23277, 23363, 23450, 23536, 23622, 23708, 23795, 23881, 23968, 24054, 24141, 24227, 24314, 24401,
     24487, 24574, 24661, 24748, 24834, 24921, 25008, 25095, 25182, 25269, 25356, 25443, 25530, 25617, 25704, 25792,
     25879, 25966, 26053, 26140, 26228, 26315, 26402, 26490, 26577, 26665, 26752, 26840, 26927, 27015, 27102, 27190,
     27277, 27365, 27453, 27540, 27628, 27716, 27803, 27891, 27979, 28066, 28154, 28242, 28330, 28418, 28505, 28593,
     28681, 28769, 28857, 28945, 29033, 29121, 29208, 29296, 29384, 29472, 29560, 29648, 29736, 29824, 29912, 30000,
     30088, 30176, 30264, 30352, 30440, 30528, 30616, 30704, 30792, 30880, 30968, 31056, 31144, 31232, 31320, 31408,
     31496, 31584, 31672, 31760, 31848, 31935, 32023, 32111, 32199, 32287, 32375, 32463, 32551, 32639, 32727, 32814,
     32902, 32990, 33078, 33166, 33253, 33341, 33429, 33517, 33604, 33692, 33780, 33867, 33955, 34043, 34130, 34218,
     34305, 34393, 34480, 34568, 34655, 34743, 34830, 34918, 35005, 35092, 35180, 35267, 35354, 35442, 35529, 35616,
     35703, 35790, 35877, 35964, 36051, 36138, 36225, 36312, 36399, 36486, 36573, 36660, 36746, 36833, 36920, 37006,
     37093, 37179, 37266, 37352, 37439, 37525, 37612, 37698, 37784, 37870, 37957, 38043, 38129, 38215, 38301, 38387,
     38473, 38559, 38645, 38730, 38816, 38902, 38987, 39073, 39158, 39244, 39329, 39415, 39500, 39585, 39670, 39756,
     39841, 39926, 40011, 40096, 40180, 40265, 40350, 40435, 40519, 40604, 40688, 40773, 40857, 40941, 41026, 41110,
     41194, 41278, 41362, 41446, 41530, 41614, 41697, 41781, 41865, 41948, 42032, 42115, 42198, 42282, 42365, 42448,
     42531, 42614, 42697, 42779, 42862, 42945, 43027, 43110, 43192, 43275, 43357, 43439, 43521, 43603, 43685, 43767,
     43849, 43931, 44012, 44094, 44175, 44257, 44338, 44419, 44500, 44581, 44662, 44743, 44824, 44905, 44985, 45066,
     45146, 45226, 45307, 45387, 45467, 45547, 45627, 45706, 45786, 45866, 45945, 46025, 46104, 46183, 46262, 46341,
     46420, 46499, 46578, 46656, 46735, 46813, 46892, 46970, 47048, 47126, 47204, 47282, 47359, 47437, 47514, 47592,
     47669, 47746, 47823, 47900, 47977, 48054, 48130, 48207, 48283, 48360, 48436, 48512, 48588, 48664, 48740, 48815,
     48891, 48966, 49041, 49117, 49192, 49267, 49341, 49416, 49491, 49565, 49639, 49714, 49788, 49862, 49936, 50009,
     50083, 50156, 50230, 50303, 50376, 50449, 50522, 50595, 50667, 50740, 50812, 50884, 50957, 51029, 51100, 51172,
     51244, 51315, 51387, 51458, 51529, 51600, 51671, 51741, 51812, 51882, 51952, 52023, 52093, 52162, 52232, 52302,
     52371, 52441, 52510, 52579, 52648, 52716, 52785, 52854, 52922, 52990, 53058, 53126, 53194, 53261, 53329, 53396,
     53463, 53530, 53597, 53664, 53731, 53797, 53863, 53930, 53996, 54062, 54127, 54193, 54258, 54323, 54389, 54454,
     54518, 54583, 54648, 54712, 54776, 54840, 54904, 54968, 55031, 55095, 55158, 55221, 55284, 55347, 55410, 55472,
     55534, 55597, 55659, 55720, 55782, 55844, 55905, 55966, 56027, 56088, 56149, 56209, 56270, 56330, 56390, 56450,
     56510, 56569, 56629, 56688, 56747, 56806, 56864, 56923, 56981, 57040, 57098, 57155, 57213, 57271, 57328, 57385,
     57442, 57499, 57556, 57612, 57669, 57725, 57781, 57837, 57892, 57948, 58003, 58058, 58113, 58168, 58222, 58277,
     58331, 58385, 58439, 58493, 58546, 58599, 58652, 58705, 58758, 58811, 58863, 58915, 58968, 59019, 59071, 59123,
     59174, 59225, 59276, 59327, 59377, 59428, 59478, 59528, 59578, 59627, 59677, 59726, 59775, 59824, 59873, 59921,
     59970, 60018, 60066, 60114, 60161, 60209, 60256, 60303, 60350, 60396, 60443, 60489, 60535, 60581, 60626, 60672,
     60717, 60762, 60807, 60852, 60896, 60940, 60984, 61028, 61072, 61115, 61159, 61202, 61245, 61287, 61330, 61372,
     61414, 61456, 61498, 61539, 61581, 61622, 61663, 61703, 61744, 61784, 61824, 61864, 61904, 61943, 61983, 62022,
     62061, 62099, 62138, 62176, 62214, 62252, 62290, 62327, 62364, 62401, 62438, 62475, 62511, 62547, 62583, 62619,
     62655, 62690, 62725, 62760, 62795, 62829, 62864, 62898, 62932, 62965, 62999, 63032, 63065, 63098, 63131, 63163,
     63195, 63227, 63259, 63291, 63322, 63353, 63384, 63415, 63445, 63476, 63506, 63536, 63565, 63595, 63624, 63653,
     63682, 63710, 63739, 63767, 63795, 63823, 63850, 63877, 63904, 63931, 63958, 63984, 64010, 64036, 64062, 64088,
     64113, 64138, 64163, 64188, 64212, 64236, 64260, 64284, 64308, 64331, 64354, 64377, 64400, 64422, 64445, 64467,
     64488, 64510, 64531, 64553, 64573, 64594, 64615, 64635, 64655, 64675, 64694, 64714, 64733, 64752, 64770, 64789,
     64807, 64825, 64843, 64861, 64878, 64895, 64912, 64929, 64945, 64961, 64977, 64993, 65009, 65024, 65039, 65054,
     65069, 65083, 65097, 65111, 65125, 65139, 65152, 65165, 65178, 65191, 65203, 65215, 65227, 65239, 65250, 65262,
     65273, 65283, 65294, 65304, 65315, 65325, 65334, 65344, 65353, 65362, 65371, 65379, 65388, 65396, 65404, 65411,
     65419, 65426, 65433, 65439, 65446, 65452, 65458, 65464, 65470, 65475, 65480, 65485, 65490, 65494, 65498, 65502,
     65506, 65510, 65513, 65516, 65519, 65522, 65524, 65526, 65528, 65530, 65531, 65533, 65534, 65534, 65535, 65535,
     65536, 65535, 65535, 65534, 65534, 65533, 65531, 65530, 65528, 65526, 65524, 65522, 65519, 65516, 65513, 65510,
     65506, 65502, 65498, 65494, 65490, 65485, 65480, 65475, 65470, 65464, 65458, 65452, 65446, 65439, 65433, 65426,
     65419, 65411, 65404, 65396, 65388, 65379, 65371, 65362, 65353, 65344, 65334, 65325, 65315, 65304, 65294, 65283,
     65273, 65262, 65250, 65239, 65227, 65215, 65203, 65191, 65178, 65165, 65152, 65139, 65125, 65111, 65097, 65083,
     65069, 65054, 65039, 65024, 65009, 64993, 64977, 64961, 64945, 64929, 64912, 64895, 64878, 64861, 64843, 64825,
     64807, 64789, 64770, 64752, 64733, 64714, 64694, 64675, 64655, 64635, 64615, 64594, 64573, 64553, 64531, 64510,
     64488, 64467, 64445, 64422, 64400, 64377, 64354, 64331, 64308, 64284, 64260, 64236, 64212, 64188, 64163, 64138,
     64113, 64088, 64062, 64036, 64010, 63984, 63958, 63931, 63904, 63877, 63850, 63823, 63795, 63767, 63739, 63710,
     63682, 63653, 63624, 63595, 63565, 63536, 63506, 63476, 63445, 63415, 63384, 63353, 63322, 63291, 63259, 63227,
     63195, 63163, 63131, 63098, 63065, 63032, 62999, 62965, 62932, 62898, 62864, 62829, 62795, 62760, 62725, 62690,
     62655, 62619, 62583, 62547, 62511, 62475, 62438, 62401, 62364, 62327, 62290, 62252, 62214, 62176, 62138, 62099,
     62061, 62022, 61983, 61943, 61904, 61864, 61824, 61784, 61744, 61703, 61663, 61622, 61581, 61539, 61498, 61456,
     61414, 61372, 61330, 61287, 61245, 61202, 61159, 61115, 61072, 61028, 60984, 60940, 60896, 60852, 60807, 60762,
     60717, 60672, 60626, 60581, 60535, 60489, 60443, 60396, 60350, 60303, 60256, 60209, 60161, 60114, 60066, 60018,
     59970, 59921, 59873, 59824, 59775, 59726, 59677, 59627, 59578, 59528, 59478, 59428, 59377, 59327, 59276, 59225,
     59174, 59123, 59071, 59019, 58968, 58915, 58863, 58811, 58758, 58705, 58652, 58599, 58546, 58493, 58439, 58385,
     58331, 58277, 58222, 58168, 58113, 58058, 58003, 57948, 57892, 57837, 57781, 57725, 57669, 57612, 57556, 57499,
     57442, 57385, 57328, 57271, 57213, 57155, 57098, 57040, 56981, 56923, 56864, 56806, 56747, 56688, 56629, 56569,
     56510, 56450, 56390, 56330, 56270, 56209, 56149, 56088, 56027, 55966, 55905, 55844, 55782, 55720, 55659, 55597,
     55534, 55472, 55410, 55347, 55284, 55221, 55158, 55095, 55031, 54968, 54904, 54840, 54776, 54712, 54648, 54583,
     54518, 54454, 54389, 54323, 54258, 54193, 54127, 54062, 53996, 53930, 53863, 53797, 53731, 53664, 53597, 53530,
     53463, 53396, 53329, 53261, 53194, 53126, 53058, 52990, 52922, 52854, 52785, 52716, 52648, 52579, 52510, 52441,
     52371, 52302, 52232, 52162, 52093, 52023, 51952, 51882, 51812, 51741, 51671, 51600, 51529, 51458, 51387, 51315,
     51244, 51172, 51100, 51029, 50957, 50884, 50812, 50740, 50667, 50595, 50522, 50449, 50376, 50303, 50230, 50156,
     50083, 50009, 49936, 49862, 49788, 49714, 49639, 49565, 49491, 49416, 49341, 49267, 49192, 49117, 49041, 48966,
     48891, 48815, 48740, 48664, 48588, 48512, 48436, 48360, 48283, 48207, 48130, 48054, 47977, 47900, 47823, 47746,
     47669, 47592, 47514, 47437, 47359, 47282, 47204, 47126, 47048, 46970, 46892, 46813, 46735, 46656, 46578, 46499,
     46420, 46341, 46262, 46183, 46104, 46025, 45945, 45866, 45786, 45706, 45627, 45547, 45467, 45387, 45307, 45226,
     45146, 45066, 44985, 44905, 44824, 44743, 44662, 44581, 44500, 44419, 44338, 44257, 44175, 44094, 44012, 43931,
     43849, 43767, 43685, 43603, 43521, 43439, 43357, 43275, 43192, 43110, 43027, 42945, 42862, 42779, 42697, 42614,
     42531, 42448, 42365, 42282, 42198, 42115, 42032, 41948, 41865, 41781, 41697, 41614, 41530, 41446, 41362, 41278,
     41194, 41110, 41026, 40941, 40857, 40773, 40688, 40604, 40519, 40435, 40350, 40265, 40180, 40096, 40011, 39926,
     39841, 39756, 39670, 39585, 39500, 39415, 39329, 39244, 39158, 39073, 38987, 38902, 38816, 38730, 38645, 38559,
     38473, 38387, 38301, 38215, 38129, 38043, 37957, 37870, 37784, 37698, 37612, 37525, 37439, 37352, 37266, 37179,
     37093, 37006, 36920, 36833, 36746, 36660, 36573, 36486, 36399, 36312, 36225, 36138, 36051, 35964, 35877, 35790,
     35703, 35616, 35529, 35442, 35354, 35267, 35180, 35092, 35005, 34918, 34830, 34743, 34655, 34568, 34480, 34393,
     34305, 34218, 34130, 34043, 33955, 33867, 33780, 33692, 33604, 33517, 33429, 33341, 33253, 33166, 33078, 32990,
     32902, 32814, 32727, 32639, 32551, 32463, 32375, 32287, 32199, 32111, 32023, 31935, 31848, 31760, 31672, 31584,
     31496, 31408, 31320, 31232, 31144, 31056, 30968, 30880, 30792, 30704, 30616, 30528, 30440, 30352, 30264, 30176,
     30088, 30000, 29912, 29824, 29736, 29648, 29560, 29472, 29384, 29296, 29208, 29121, 29033, 28945, 28857, 28769,
     28681, 28593, 28505, 28418, 28330, 28242, 28154, 28066, 27979, 27891, 27803, 27716, 27628, 27540, 27453, 27365,
     27277, 27190, 27102, 27015, 26927, 26840, 26752, 26665, 26577, 26490, 26402, 26315, 26228, 26140, 26053, 25966,
     25879, 25792, 25704, 25617, 25530, 25443, 25356, 25269, 25182, 25095, 25008, 24921, 24834, 24748, 24661, 24574,
     24487, 24401, 24314, 24227, 24141, 24054, 23968, 23881, 23795, 23708, 23622, 23536, 23450, 23363, 23277, 23191,
     23105, 23019, 22933, 22847, 22761, 22675, 22589, 22504, 22418, 22332, 22247, 22161, 22076, 21990, 21905, 21819,
     21734, 21649, 21563, 21478, 21393, 21308, 21223, 21138, 21053, 20968, 20884, 20799, 20714, 20629, 20545, 20460,
     20376, 20292, 20207, 20123, 20039, 19955, 19870, 19786, 19702, 19619, 19535, 19451, 19367, 19284, 19200, 19116,
     19033, 18950, 18866, 18783, 18700, 18617, 18534, 18451, 18368, 18285, 18202, 18119, 18037, 17954, 17871, 17789,
     17707, 17624, 17542, 17460, 17378, 17296, 17214, 17132, 17050, 16969, 16887, 16806, 16724, 16643, 16561, 16480,
     16399, 16318, 16237, 16156, 16075, 15994, 15914, 15833, 15753, 15672, 15592, 15512, 15431, 15351, 15271, 15191,
     15111, 15032, 14952, 14872, 14793, 14714, 14634, 14555, 14476, 14397, 14318, 14239, 14160, 14081, 14003, 13924,
     13846, 13768, 13689, 13611, 13533, 13455, 13377, 13300, 13222, 13144, 13067, 12989, 12912, 12835, 12758, 12681,
     12604, 12527, 12450, 12374, 12297, 12221, 12144, 12068, 11992, 11916, 11840, 11764, 11689, 11613, 11537, 11462,
     11387, 11311, 11236, 11161, 11086, 11012, 10937, 10862, 10788, 10714, 10639, 10565, 10491, 10417, 10343, 10269,
     10196, 10122, 10049, 9976, 9902, 9829, 9756, 9684, 9611, 9538, 9466, 9393, 9321, 9249, 9177, 9105,
     9033, 8961, 8889, 8818, 8747, 8675, 8604, 8533, 8462, 8391, 8321, 8250, 8180, 8109, 8039, 7969,
     7899, 7829, 7759, 7690, 7620, 7551, 7481, 7412, 7343, 7274, 7205, 7137, 7068, 7000, 6931, 6863,
     6795, 6727, 6659, 6592, 6524, 6457, 6389, 6322, 6255, 6188, 6121, 6054, 5988, 5921, 5855, 5789,
     5723, 5657, 5591, 5525, 5460, 5394, 5329, 5264, 5199, 5134, 5069, 5004, 4940, 4875, 4811, 4747,
     4683, 4619, 4555, 4491, 4428, 4364, 4301, 4238, 4175, 4112, 4050, 3987, 3925, 3862, 3800, 3738,
     3676, 3614, 3553, 3491, 3430, 3368, 3307, 3246, 3186, 3125, 3064, 3004, 2944, 2883, 2823, 2763,
     2704, 2644, 2585, 2525, 2466, 2407, 2348, 2289, 2231, 2172, 2114, 2055, 1997, 1939, 1882, 1824,
     1766, 1709, 1652, 1595, 1538, 1481, 1424, 1367, 1311, 1255, 1199, 1143, 1087, 1031, 975, 920,
     865, 810, 755, 700, 645, 590, 536, 482, 428, 374, 320, 266, 212, 159, 106, 52,
     0, -52, -105, -158, -210, -262, -314, -366, -418, -470, -522, -573, -624, -675, -726, -777,
     -828, -878, -929, -979, -1029, -1079, -1129, -1178, -1228, -1277, -1327, -1376, -1425, -1473, -1522, -1570,
     -1619, -1667, -1715, -1763, -1811, -1858, -1906, -1953, -2000, -2047, -2094, -2141, -2187, -2234, -2280, -2326,
     -2372, -2418, -2463, -2509, -2554, -2599, -2645, -2689, -2734, -2779, -2823, -2868, -2912, -2956, -3000, -3043,
     -3087, -3130, -3174, -3217, -3260, -3303, -3345, -3388, -3430, -3472, -3515, -3557, -3598, -3640, -3681, -3723,
     -3764, -3805, -3846, -3887, -3927, -3968, -4008, -4048, -4088, -4128, -4167, -4207, -4246, -4286, -4325, -4364,
     -4402, -4441, -4480, -4518, -4556, -4594, -4632, -4670, -4707, -4745, -4782, -4819, -4856, -4893, -4930, -4966,
     -5003, -5039, -5075, -5111, -5147, -5182, -5218, -5253, -5288, -5323, -5358, -5393, -5427, -5462, -5496, -5530,
     -5564, -5598, -5632, -5665, -5699, -5732, -5765, -5798, -5831, -5863, -5896, -5928, -5961, -5993, -6024, -6056,
     -6088, -6119, -6151, -6182, -6213, -6244, -6274, -6305, -6335, -6366, -6396, -6426, -6455, -6485, -6515, -6544,
     -6573, -6602, -6631, -6660, -6689, -6717, -6746, -6774, -6802, -6830, -6858, -6885, -6913, -6940, -6967, -6994,
     -7021, -7048, -7074, -7101, -7127, -7153, -7179, -7205, -7231, -7256, -7282, -7307, -7332, -7357, -7382, -7407,
     -7431, -7456, -7480, -7504, -7528, -7552, -7576, -7599, -7622, -7646, -7669, -7692, -7715, -7737, -7760, -7782,
     -7804, -7827, -7849, -7870, -7892, -7914, -7935, -7956, -7977, -7998, -8019, -8040, -8060, -8081, -8101, -8121,
     -8141, -8161, -8181, -8200, -8220, -8239, -8258, -8277, -8296, -8315, -8333, -8352, -8370, -8388, -8406, -8424,
     -8442, -8460, -8477, -8494, -8512, -8529, -8546, -8562, -8579, -8596, -8612, -8628, -8644, -8660, -8676, -8692,
     -8707, -8723, -8738, -8753, -8768, -8783, -8798, -8812, -8827, -8841, -8856, -8870, -8884, -8897, -8911, -8925,
     -8938, -8951, -8964, -8977, -8990, -9003, -9016, -9028, -9041, -9053, -9065, -9077, -9089, -9100, -9112, -9123,
     -9135, -9146, -9157, -9168, -9179, -9189, -9200, -9210, -9221, -9231, -9241, -9251, -9261, -9270, -9280, -9289,
     -9298, -9308, -9317, -9325, -9334, -9343, -9351, -9360, -9368, -9376, -9384, -9392, -9400, -9408, -9415, -9422,
     -9430, -9437, -9444, -9451, -9458, -9464, -9471, -9477, -9484, -9490, -9496, -9502, -9508, -9513, -9519, -9524,
     -9530, -9535, -9540, -9545, -9550, -9555, -9559, -9564, -9568, -9572, -9577, -9581, -9585, -9588, -9592, -9596,
     -9599, -9602, -9606, -9609, -9612, -9615, -9618, -9620, -9623, -9625, -9628, -9630, -9632, -9634, -9636, -9637,
     -9639, -9641, -9642, -9643, -9645, -9646, -9647, -9648, -9648, -9649, -9650, -9650, -9650, -9651, -9651, -9651,
     -9651, -9650, -9650, -9650, -9649, -9649, -9648, -9647, -9646, -9645, -9644, -9643, -9641, -9640, -9638, -9637,
     -9635, -9633, -9631, -9629, -9627, -9624, -9622, -9620, -9617, -9614, -9612, -9609, -9606, -9603, -9599, -9596,
     -9593, -9589, -9586, -9582, -9578, -9574, -9570, -9566, -9562, -9558, -9554, -9549, -9545, -9540, -9535, -9530,
     -9525, -9520, -9515, -9510, -9505, -9499, -9494, -9488, -9483, -9477, -9471, -9465, -9459, -9453, -9447, -9441,
     -9434, -9428, -9421, -9415, -9408, -9401, -9394, -9387, -9380, -9373, -9366, -9358, -9351, -9343, -9336, -9328,
     -9320, -9312, -9304, -9296, -9288, -9280, -9272, -9263, -9255, -9246, -9238, -9229, -9220, -9211, -9203, -9194,
     -9184, -9175, -9166, -9157, -9147, -9138, -9128, -9119, -9109, -9099, -9089, -9079, -9069, -9059, -9049, -9039,
     -9028, -9018, -9007, -8997, -8986, -8976, -8965, -8954, -8943, -8932, -8921, -8910, -8899, -8887, -8876, -8865,
     -8853, -8842, -8830, -8818, -8806, -8795, -8783, -8771, -8759, -8747, -8734, -8722, -8710, -8697, -8685, -8672,
     -8660, -8647, -8635, -8622, -8609, -8596, -8583, -8570, -8557, -8544, -8531, -8517, -8504, -8491, -8477, -8464,
     -8450, -8436, -8423, -8409, -8395, -8381, -8367, -8353, -8339, -8325, -8311, -8297, -8282, -8268, -8254, -8239,
     -8225, -8210, -8195, -8181, -8166, -8151, -8136, -8121, -8107, -8092, -8076, -8061, -8046, -8031, -8016, -8000,
     -7985, -7970, -7954, -7939, -7923, -7907, -7892, -7876, -7860, -7845, -7829, -7813, -7797, -7781, -7765, -7749,
     -7733, -7716, -7700, -7684, -7668, -7651, -7635, -7618, -7602, -7585, -7569, -7552, -7535, -7519, -7502, -7485,
     -7468, -7451, -7434, -7418, -7401, -7383, -7366, -7349, -7332, -7315, -7298, -7280, -7263, -7246, -7228, -7211,
     -7194, -7176, -7159, -7141, -7123, -7106, -7088, -7070, -7053, -7035, -7017, -6999, -6981, -6963, -6945, -6928,
     -6910, -6891, -6873, -6855, -6837, -6819, -6801, -6783, -6764, -6746, -6728, -6709, -6691, -6673, -6654, -6636,
     -6617, -6599, -6580, -6562, -6543, -6525, -6506, -6487, -6469, -6450, -6431, -6412, -6394, -6375, -6356, -6337,
     -6318, -6299, -6281, -6262, -6243, -6224, -6205, -6186, -6167, -6148, -6128, -6109, -6090, -6071, -6052, -6033,
     -6014, -5994, -5975, -5956, -5937, -5917, -5898, -5879, -5859, -5840, -5821, -5801, -5782, -5763, -5743, -5724,
     -5704, -5685, -5665, -5646, -5626, -5607, -5587, -5568, -5548, -5529, -5509, -5489, -5470, -5450, -5431, -5411,
     -5391, -5372, -5352, -5332, -5313, -5293, -5273, -5254, -5234, -5214, -5194, -5175, -5155, -5135, -5116, -5096,
     -5076, -5056, -5036, -5017, -4997, -4977, -4957, -4938, -4918, -4898, -4878, -4858, -4839, -4819, -4799, -4779,
     -4759, -4740, -4720, -4700, -4680, -4660, -4640, -4621, -4601, -4581, -4561, -4541, -4522, -4502, -4482, -4462,
     -4442, -4422, -4403, -4383, -4363, -4343, -4323, -4304, -4284, -4264, -4244, -4225, -4205, -4185, -4165, -4146,
     -4126, -4106, -4086, -4067, -4047, -4027, -4008, -3988, -3968, -3948, -3929, -3909, -3890, -3870, -3850, -3831,
     -3811, -3791, -3772, -3752, -3733, -3713, -3694, -3674, -3654, -3635, -3615, -3596, -3576, -3557, -3537, -3518,
     -3499, -3479, -3460, -3440, -3421, -3402, -3382, -3363, -3344, -3324, -3305, -3286, -3266, -3247, -3228, -3209,
     -3190, -3170, -3151, -3132, -3113, -3094, -3075, -3056, -3037, -3018, -2999, -2979, -2961, -2942, -2923, -2904,
     -2885, -2866, -2847, -2828, -2809, -2790, -2772, -2753, -2734, -2715, -2697, -2678, -2659, -2641, -2622, -2603,
     -2585, -2566, -2548, -2529, -2511, -2492, -2474, -2455, -2437, -2419, -2400, -2382, -2364, -2345, -2327, -2309,
     -2291, -2272, -2254, -2236, -2218, -2200, -2182, -2164, -2146, -2128, -2110, -2092, -2074, -2056, -2038, -2021,
     -2003, -1985, -1967, -1950, -1932, -1914, -1897, -1879, -1862, -1844, -1827, -1809, -1792, -1774, -1757, -1739,
     -1722, -1705, -1688, -1670, -1653, -1636, -1619, -1602, -1585, -1567, -1550, -1533, -1517, -1500, -1483, -1466,
     -1449, -1432, -1415, -1399, -1382, -1365, -1349, -1332, -1316, -1299, -1282, -1266, -1250, -1233, -1217, -1200,
     -1184, -1168, -1152, -1135, -1119, -1103, -1087, -1071, -1055, -1039, -1023, -1007, -991, -975, -960, -944,
     -928, -912, -897, -881, -865, -850, -834, -819, -803, -788, -773, -757, -742, -727, -711, -696,
     -681, -666, -651, -636, -621, -606, -591, -576, -561, -546, -532, -517, -502, -488, -473, -458,
     -444, -429, -415, -400, -386, -372, -357, -343, -329, -315, -301, -286, -272, -258, -244, -230,
     -216, -203, -189, -175, -161, -148, -134, -120, -107, -93, -80, -66, -53, -39, -26, -13,
     0, 13, 26, 39, 52, 65, 78, 91, 104, 117, 130, 143, 155, 168, 181, 193,
     206, 218, 231, 243, 256, 268, 280, 293, 305, 317, 329, 341, 354, 366, 378, 389,
     401, 413, 425, 437, 449, 460, 472, 483, 495, 507, 518, 529, 541, 552, 563, 575,
     586, 597, 608, 619, 630, 641, 652, 663, 674, 685, 695, 706, 717, 727, 738, 749,
     759, 770, 780, 790, 801, 811, 821, 831, 842, 852, 862, 872, 882, 892, 901, 911,
     921, 931, 941, 950, 960, 969, 979, 988, 998, 1007, 1017, 1026, 1035, 1044, 1054, 1063,
     1072, 1081, 1090, 1099, 1108, 1116, 1125, 1134, 1143, 1151, 1160, 1169, 1177, 1186, 1194, 1203,
     1211, 1219, 1228, 1236, 1244, 1252, 1260, 1268, 1276, 1284, 1292, 1300, 1308, 1316, 1323, 1331,
     1339, 1346, 1354, 1362, 1369, 1376, 1384, 1391, 1399, 1406, 1413, 1420, 1427, 1434, 1441, 1448,
     1455, 1462, 1469, 1476, 1483, 1490, 1496, 1503, 1509, 1516, 1523, 1529, 1535, 1542, 1548, 1555,
     1561, 1567, 1573, 1579, 1585, 1591, 1597, 1603, 1609, 1615, 1621, 1627, 1632, 1638, 1644, 1649,
     1655, 1661, 1666, 1671, 1677, 1682, 1688, 1693, 1698, 1703, 1708, 1713, 1719, 1724, 1729, 1733,
     1738, 1743, 1748, 1753, 1758, 1762, 1767, 1771, 1776, 1781, 1785, 1789, 1794, 1798, 1803, 1807,
     1811, 1815, 1819, 1823, 1828, 1832, 1836, 1839, 1843, 1847, 1851, 1855, 1859, 1862, 1866, 1870,
     1873, 1877, 1880, 1884, 1887, 1890, 1894, 1897, 1900, 1904, 1907, 1910, 1913, 1916, 1919, 1922,
     1925, 1928, 1931, 1934, 1936, 1939, 1942, 1945, 1947, 1950, 1952, 1955, 1957, 1960, 1962, 1965,
     1967, 1969, 1972, 1974, 1976, 1978, 1980, 1982, 1984, 1986, 1988, 1990, 1992, 1994, 1996, 1998,
     1999, 2001, 2003, 2004, 2006, 2007, 2009, 2010, 2012, 2013, 2015, 2016, 2017, 2019, 2020, 2021,
     2022, 2023, 2024, 2026, 2027, 2028, 2029, 2029, 2030, 2031, 2032, 2033, 2034, 2034, 2035, 2036,
     2036, 2037, 2037, 2038, 2038, 2039, 2039, 2040, 2040, 2040, 2041, 2041, 2041, 2041, 2041, 2042,
     2042, 2042, 2042, 2042, 2042, 2042, 2042, 2041, 2041, 2041, 2041, 2041, 2040, 2040, 2040, 2039,
     2039, 2039, 2038, 2038, 2037, 2036, 2036, 2035, 2035, 2034, 2033, 2033, 2032, 2031, 2030, 2029,
     2028, 2028, 2027, 2026, 2025, 2024, 2023, 2021, 2020, 2019, 2018, 2017, 2016, 2014, 2013, 2012,
     2011, 2009, 2008, 2006, 2005, 2004, 2002, 2001, 1999, 1997, 1996, 1994, 1993, 1991, 1989, 1988,
     1986, 1984, 1982, 1980, 1979, 1977, 1975, 1973, 1971, 1969, 1967, 1965, 1963, 1961, 1959, 1957,
     1954, 1952, 1950, 1948, 1946, 1943, 1941, 1939, 1937, 1934, 1932, 1929, 1927, 1925, 1922, 1920,
     1917, 1915, 1912, 1910, 1907, 1904, 1902, 1899, 1896, 1894, 1891, 1888, 1886, 1883, 1880, 1877,
     1874, 1872, 1869, 1866, 1863, 1860, 1857, 1854, 1851, 1848, 1845, 1842, 1839, 1836, 1833, 1830,
     1826, 1823, 1820, 1817, 1814, 1810, 1807, 1804, 1801, 1797, 1794, 1791, 1787, 1784, 1781, 1777,
     1774, 1770, 1767, 1764, 1760, 1757, 1753, 1750, 1746, 1742, 1739, 1735, 1732, 1728, 1724, 1721,
     1717, 1714, 1710, 1706, 1702, 1699, 1695, 1691, 1687, 1684, 1680, 1676, 1672, 1668, 1665, 1661,
     1657, 1653, 1649, 1645, 1641, 1637, 1633, 1629, 1625, 1621, 1617, 1613, 1609, 1605, 1601, 1597,
     1593, 1589, 1585, 1581, 1577, 1573, 1569, 1564, 1560, 1556, 1552, 1548, 1544, 1539, 1535, 1531,
     1527, 1523, 1518, 1514, 1510, 1506, 1501, 1497, 1493, 1488, 1484, 1480, 1475, 1471, 1467, 1462,
     1458, 1454, 1449, 1445, 1441, 1436, 1432, 1427, 1423, 1419, 1414, 1410, 1405, 1401, 1396, 1392,
     1387, 1383, 1379, 1374, 1370, 1365, 1361, 1356, 1352, 1347, 1343, 1338, 1334, 1329, 1325, 1320,
     1315, 1311, 1306, 1302, 1297, 1293, 1288, 1284, 1279, 1275, 1270, 1265, 1261, 1256, 1252, 1247,
     1243, 1238, 1233, 1229, 1224, 1220, 1215, 1210, 1206, 1201, 1197, 1192, 1187, 1183, 1178, 1174,
     1169, 1164, 1160, 1155, 1150, 1146, 1141, 1137, 1132, 1127, 1123, 1118, 1114, 1109, 1104, 1100,
     1095, 1091, 1086, 1081, 1077, 1072, 1068, 1063, 1058, 1054, 1049, 1045, 1040, 1035, 1031, 1026,
     1022, 1017, 1012, 1008, 1003, 999, 994, 990, 985, 980, 976, 971, 967, 962, 958, 953,
     949, 944, 940, 935, 931, 926, 921, 917, 912, 908, 903, 899, 894, 890, 886, 881,
     877, 872, 868, 863, 859, 854, 850, 845, 841, 837, 832, 828, 823, 819, 815, 810,
     806, 801, 797, 793, 788, 784, 780, 775, 771, 767, 762, 758, 754, 749, 745, 741,
     737, 732, 728, 724, 720, 715, 711, 707, 703, 699, 694, 690, 686, 682, 678, 673,
     669, 665, 661, 657, 653, 649, 645, 641, 637, 632, 628, 624, 620, 616, 612, 608,
     604, 600, 596, 592, 588, 584, 580, 577, 573, 569, 565, 561, 557, 553, 549, 545,
     542, 538, 534, 530, 526, 523, 519, 515, 511, 507, 504, 500, 496, 493, 489, 485,
     482, 478, 474, 471, 467, 463, 460, 456, 453, 449, 446, 442, 438, 435, 431, 428,
     424, 421, 418, 414, 411, 407, 404, 400, 397, 394, 390, 387, 384, 380, 377, 374,
     370, 367, 364, 361, 357, 354, 351, 348, 345, 342, 338, 335, 332, 329, 326, 323,
     320, 317, 314, 311, 308, 305, 302, 299, 296, 293, 290, 287, 284, 281, 278, 275,
     272, 270, 267, 264, 261, 258, 256, 253, 250, 247, 245, 242, 239, 237, 234, 231,
     229, 226, 224, 221, 218, 216, 213, 211, 208, 206, 203, 201, 198, 196, 193, 191,
     189, 186, 184, 182, 179, 177, 175, 172, 170, 168, 166, 163, 161, 159, 157, 155,
     152, 150, 148, 146, 144, 142, 140, 138, 136, 134, 132, 130, 128, 126, 124, 122,
     120, 118, 116, 114, 112, 111, 109, 107, 105, 103, 102, 100, 98, 96, 95, 93,
     91, 90, 88, 86, 85, 83, 82, 80, 78, 77, 75, 74, 72, 71, 69, 68,
     67, 65, 64, 62, 61, 60, 58, 57, 56, 54, 53, 52, 51, 49, 48, 47,
     46, 45, 44, 42, 41, 40, 39, 38, 37, 36, 35, 34, 33, 32, 31, 30,
     29, 28, 27, 26, 25, 24, 24, 23, 22, 21, 20, 20, 19, 18, 17, 17,
     16, 15, 15, 14, 13, 13, 12, 11, 11, 10, 10, 9, 9, 8, 8, 7,
     7, 6, 6, 5, 5, 5, 4, 4, 4, 3, 3, 3, 2, 2, 2, 2,
     1, 1, 1, 1, 1, 0, 0, 0, 0, 0, 0, 0, 0, 0, 0, 0
  >>

\* a variant whose table starts one sample point late
KernelValueNext(kernel_index) ==
  lanczos_kernel_table[CLOWNRESAMPLER_MIN(kernel_index + 2, KERNEL_TABLE_COUNT)]

\* precomputed->lanczos_kernel_table[kernel_index]
KernelValue(kernel_index) == lanczos_kernel_table[kernel_index + 1]

(* ---------------- ratio arithmetic and Adjust ---------------- *)

\* a variant without the test for zero
CalculateRatioUnguarded(a, b) ==
  IF b = 0 THEN FIXED_POINT_FRACTIONAL_SIZE ELSE (a * FIXED_POINT_FRACTIONAL_SIZE) \div b

\* The quotient a / b in 16.16 fixed point, by long division in 16-bit
\* digits; 0 when either is 0.
ClownResampler_CalculateRatio(a, b) ==
  IF a = 0 \/ b = 0 THEN 0
  ELSE LET upper0  == a \div FIXED_POINT_FRACTIONAL_SIZE
           middle0 == a % FIXED_POINT_FRACTIONAL_SIZE
           middle1 == middle0 + (upper0 % b) * FIXED_POINT_FRACTIONAL_SIZE
           upper1  == upper0 \div b
           lower1  == (middle1 % b) * FIXED_POINT_FRACTIONAL_SIZE
           middle2 == middle1 \div b
           lower2  == lower1 \div b
       IN  upper1 * (FIXED_POINT_FRACTIONAL_SIZE * 2)
             + middle2 * (FIXED_POINT_FRACTIONAL_SIZE * 1)
             + lower2

RECURSIVE BinaryQuotient(_, _, _)
\* floor(r * 2^bits / b) for r < b < 2^30, one binary digit at a time, so
\* that no value leaves the range of the model's integers
BinaryQuotient(r, b, bits) ==
  IF bits = 0 THEN 0
  ELSE LET digit == IF 2 * r >= b THEN 1 ELSE 0
       IN  digit * Exponent2(bits - 1) + BinaryQuotient(2 * r - digit * b, b, bits - 1)

\* ClownResampler_CalculateRatio with cc_u32f 32 bits wide, for a < 2^31,
\* b < 2^30 and a / b < 2^15.  "upper % b * 65536" is below 2^32 as upper is
\* below 2^16; "middle % b * 65536" is reduced modulo 2^32, which keeps the
\* low 16 bits of middle % b; the sum of the chunks is below 2^31.
CalculateRatio32(a, b) ==
  IF a = 0 \/ b = 0 THEN 0
  ELSE LET upper0  == a \div FIXED_POINT_FRACTIONAL_SIZE
           middle0 == a % FIXED_POINT_FRACTIONAL_SIZE
           middle1 == middle0 + (upper0 % b) * FIXED_POINT_FRACTIONAL_SIZE
           upper1  == upper0 \div b
           middle2 == middle1 \div b
           lower2  == BinaryQuotient((middle1 % b) % FIXED_POINT_FRACTIONAL_SIZE, b, 16)
       IN  upper1 * (FIXED_POINT_FRACTIONAL_SIZE * 2)
             + middle2 * (FIXED_POINT_FRACTIONAL_SIZE * 1)
             + lower2

actual_low_pass_sample_rate(rate) ==
  CLOWNRESAMPLER_MIN(rate[1], CLOWNRESAMPLER_MIN(rate[2], rate[3]))

\* a variant that keeps the normaliser in 16.16
SampleNormaliser16(inverse_kernel_scale) == inverse_kernel_scale

\* "(cc_s32f)(inverse_kernel_scale >> (16 - 15))": the normaliser in 17.15
SampleNormaliser(inverse_kernel_scale) == inverse_kernel_scale \div 2

\* a variant that starts over at position 0, as Init does
LowLevel_AdjustFromStart(resampler, rate) ==
  LET kernel_scale == ClownResampler_CalculateRatio(rate[1], actual_low_pass_sample_rate(rate))
      inverse_kernel_scale ==
        ClownResampler_CalculateRatio(actual_low_pass_sample_rate(rate), rate[1])
      stretched == KERNEL_RADIUS * kernel_scale
      integer_stretched == TO_INTEGER_FROM_FIXED_POINT_CEILING(stretched)
  IN  [channels |-> resampler.channels,
       position_integer |-> 0,
       position_fractional |-> 0,
       increment |-> ClownResampler_CalculateRatio(rate[1], rate[2]),
       stretched_kernel_radius |-> stretched,
       integer_stretched_kernel_radius |-> integer_stretched,
       stretched_kernel_radius_delta |->
         TO_FIXED_POINT_FROM_INTEGER(integer_stretched) - stretched,
       kernel_step_size |-> FIXED_POINT_MULTIPLY(KERNEL_RESOLUTION, inverse_kernel_scale),
       sample_normaliser |-> SampleNormaliser(inverse_kernel_scale)]

\* the fields ClownResampler_LowLevel_Adjust assigns; the others are kept
ClownResampler_LowLevel_Adjust(resampler, rate) ==
  LET output_to_input_ratio == ClownResampler_CalculateRatio(rate[1], rate[2])
      kernel_scale == ClownResampler_CalculateRatio(rate[1], actual_low_pass_sample_rate(rate))
      inverse_kernel_scale ==
        ClownResampler_CalculateRatio(actual_low_pass_sample_rate(rate), rate[1])
      stretched == KERNEL_RADIUS * kernel_scale
      integer_stretched == TO_INTEGER_FROM_FIXED_POINT_CEILING(stretched)
  IN  [resampler EXCEPT
         !.increment = output_to_input_ratio,
         !.stretched_kernel_radius = stretched,
         !.integer_stretched_kernel_radius = integer_stretched,
         !.stretched_kernel_radius_delta =
            TO_FIXED_POINT_FROM_INTEGER(integer_stretched) - stretched,
         !.kernel_step_size = FIXED_POINT_MULTIPLY(KERNEL_RESOLUTION, inverse_kernel_scale),
         !.sample_normaliser = SampleNormaliser(inverse_kernel_scale)]

\* the upper 16 bits of k * x in a cc_u32f of 32 bits
Product32High(k, x) ==
  (k * (x \div FIXED_POINT_FRACTIONAL_SIZE)
     + (k * (x % FIXED_POINT_FRACTIONAL_SIZE)) \div FIXED_POINT_FRACTIONAL_SIZE)
    % FIXED_POINT_FRACTIONAL_SIZE

\* "CLOWNRESAMPLER_KERNEL_RADIUS * kernel_scale" where cc_u32f has 32 bits:
\* k * x modulo 2^32, put together from its two halves (used where the upper
\* half is below 2^15)
Product32(k, x) ==
  Product32High(k, x) * FIXED_POINT_FRACTIONAL_SIZE
    + ((k * (x % FIXED_POINT_FRACTIONAL_SIZE)) % FIXED_POINT_FRACTIONAL_SIZE)

\* ClownResampler_LowLevel_Init where cc_u32f has 32 bits (the product of
\* ClownResampler_CalculateRatio and the one of the radius are reduced
\* modulo 2^32; the others stay far below 2^32 for the rates it is used with)
LowLevel_Init32(channels, rate) ==
  LET kernel_scale == CalculateRatio32(rate[1], actual_low_pass_sample_rate(rate))
      inverse_kernel_scale == CalculateRatio32(actual_low_pass_sample_rate(rate), rate[1])
      stretched == Product32(KERNEL_RADIUS, kernel_scale)
      integer_stretched == TO_INTEGER_FROM_FIXED_POINT_CEILING(stretched)
  IN  [channels |-> channels,
       position_integer |-> 0,
       position_fractional |-> 0,
       increment |-> CalculateRatio32(rate[1], rate[2]),
       stretched_kernel_radius |-> stretched,
       integer_stretched_kernel_radius |-> integer_stretched,
       stretched_kernel_radius_delta |->
         TO_FIXED_POINT_FROM_INTEGER(integer_stretched) - stretched,
       kernel_step_size |-> FIXED_POINT_MULTIPLY(KERNEL_RESOLUTION, inverse_kernel_scale),
       sample_normaliser |-> SampleNormaliser(inverse_kernel_scale)]

\* the assertion of ClownResampler_LowLevel_Adjust
AdjustAssertion(resampler) ==
  resampler.stretched_kernel_radius_delta < TO_FIXED_POINT_FROM_INTEGER(1)

ClownResampler_LowLevel_Init(channels, rate) ==
  ClownResampler_LowLevel_Adjust(
    [channels |-> channels, position_integer |-> 0, position_fractional |-> 0,
     increment |-> 0, sample_normaliser |-> 0, stretched_kernel_radius |-> 0,
     integer_stretched_kernel_radius |-> 0, stretched_kernel_radius_delta |-> 0,
     kernel_step_size |-> 0],
    rate)

(* ---------------- ClownResampler_ComputeFrame ---------------- *)

min_relative(resampler, position_fractional) ==
  TO_INTEGER_FROM_FIXED_POINT_CEILING(position_fractional + resampler.stretched_kernel_radius_delta)

max_relative(resampler, position_fractional) ==
  TO_INTEGER_FROM_FIXED_POINT_FLOOR(position_fractional + resampler.stretched_kernel_radius)

\* 'min' and 'max' of the convolution, as sample indices from the input pointer
ConvolutionMin(resampler, position_integer, position_fractional) ==
  (position_integer + min_relative(resampler, position_fractional)) * resampler.channels

\* a variant whose window is a radius longer
ConvolutionMaxLong(resampler, position_integer, position_fractional) ==
  (position_integer + 2 * resampler.integer_stretched_kernel_radius
     + max_relative(resampler, position_fractional)) * resampler.channels

ConvolutionMax(resampler, position_integer, position_fractional) ==
  (position_integer + resampler.integer_stretched_kernel_radius
     + max_relative(resampler, position_fractional)) * resampler.channels

kernel_start(resampler, position_fractional) ==
  FIXED_POINT_MULTIPLY(resampler.kernel_step_size,
    TO_FIXED_POINT_FROM_INTEGER(min_relative(resampler, position_fractional)) - position_fractional)

\* the iterations of the convolution loop: tap t reads frame
\* sample_index = min + t * channels with kernel_index = kernel_start + t * kernel_step_size
Taps(resampler, position_integer, position_fractional) ==
  LET lo == ConvolutionMin(resampler, position_integer, position_fractional)
      hi == ConvolutionMax(resampler, position_integer, position_fractional)
  IN  IF hi > lo THEN 0 .. ((hi - lo + resampler.channels - 1) \div resampler.channels) - 1
      ELSE {}

\* a variant whose loop starts one frame late
TapSampleIndexLate(resampler, position_integer, position_fractional, t) ==
  ConvolutionMin(resampler, position_integer, position_fractional)
    + (t + 1) * resampler.channels

\* sample_index in iteration t of "for (sample_index = min; sample_index < max; ...)"
TapSampleIndex(resampler, position_integer, position_fractional, t) ==
  ConvolutionMin(resampler, position_integer, position_fractional) + t * resampler.channels

\* a variant that steps kernel_index before the read
TapKernelIndexStepped(resampler, position_fractional, t) ==
  kernel_start(resampler, position_fractional) + (t + 1) * resampler.kernel_step_size

\* kernel_index in iteration t of the loop
TapKernelIndex(resampler, position_fractional, t) ==
  kernel_start(resampler, position_fractional) + t * resampler.kernel_step_size

\* the two assertions at the head of ClownResampler_ComputeFrame
ComputeFrameAssertions(resampler, position_fractional) ==
  /\ min_relative(resampler, position_fractional) <= resampler.integer_stretched_kernel_radius
  /\ max_relative(resampler, position_fractional) <= resampler.integer_stretched_kernel_radius

\* the assertion at the read of lanczos_kernel_table holds in every
\* iteration (kernel_index is a size_t: a negative value here is a huge one there)
KernelIndicesInRange(resampler, position_fractional) ==
  \A t \in Taps(resampler, 0, position_fractional) :
    /\ TapKernelIndex(resampler, position_fractional, t) >= 0
    /\ TapKernelIndex(resampler, position_fractional, t) < KERNEL_TABLE_COUNT

\* the highest index input_buffer[sample_index + current_channel] is read
\* at, from the 'input_buffer' parameter; -1 when the loop does not iterate
HighestSampleIndex(resampler, position_integer, position_fractional) ==
  IF Taps(resampler, position_integer, position_fractional) = {} THEN -1
  ELSE SetMax({ TapSampleIndex(resampler, position_integer, position_fractional, t)
                : t \in Taps(resampler, position_integer, position_fractional) })
       + resampler.channels - 1

\* every sample read lies inside storage of 'capacity' samples of which the
\* 'input_buffer' parameter is sample 'base'
SampleIndicesInRange(resampler, capacity, base, position_integer, position_fractional) ==
  \/ Taps(resampler, position_integer, position_fractional) = {}
  \/ resampler.channels = 0
  \/ /\ base + ConvolutionMin(resampler, position_integer, position_fractional) >= 0
     /\ base + HighestSampleIndex(resampler, position_integer, position_fractional)
          < capacity

\* every read of the frame stays inside the table and inside 'buffer', and
\* reads storage that was written
ReadsDefined(resampler, buffer, base, position_integer, position_fractional) ==
  \A t \in Taps(resampler, position_integer, position_fractional) :
    /\ TapKernelIndex(resampler, position_fractional, t) < KERNEL_TABLE_COUNT
    /\ \A c \in 0 .. resampler.channels - 1 :
         LET i == base + TapSampleIndex(resampler, position_integer, position_fractional, t) + c
         IN  i \in DOMAIN buffer /\ buffer[i] # Indeterminate

\* a variant without the initialiser: the accumulators start from what the
\* stack held
UninitialisedAccumulator == FIXED_POINT_FRACTIONAL_SIZE - 1

\* "cc_s32f samples[CLOWNRESAMPLER_MAXIMUM_CHANNELS] = {0};"
InitialAccumulator == 0

RECURSIVE Accumulate(_, _, _, _, _, _, _)
\* one accumulator after the taps 0 .. n - 1
Accumulate(resampler, buffer, base, position_integer, position_fractional, c, n) ==
  IF n = 0 THEN InitialAccumulator
  ELSE Accumulate(resampler, buffer, base, position_integer, position_fractional, c, n - 1)
       + FIXED_POINT_MULTIPLY(
           buffer[base + TapSampleIndex(resampler, position_integer, position_fractional, n - 1) + c],
           KernelValue(TapKernelIndex(resampler, position_fractional, n - 1)))

\* the frame 'samples' holds when ClownResampler_ComputeFrame returns
ClownResampler_ComputeFrame(resampler, buffer, base, position_integer, position_fractional) ==
  [c \in 1 .. resampler.channels |->
     CDiv(Accumulate(resampler, buffer, base, position_integer, position_fractional, c - 1,
                     Cardinality(Taps(resampler, position_integer, position_fractional)))
            * resampler.sample_normaliser,
          FIXED_POINT_FRACTIONAL_SIZE \div 2)]

(* ---------------- the state ---------------- *)

VARIABLES
  \* the session: fixed by Init
  api,                \* "low": the low-level API is in use; "high": the high-level API
  channels_given,     \* the 'channels' argument of Init
  pattern,            \* which input the session resamples
  source_frames,      \* the number of frames of that input
  record_limit,       \* how many frames 'output' and 'delivered' record
  \* ClownResampler_LowLevel_State
  low_level,
  rates,              \* the rates last passed to Init or Adjust
  adjusts,            \* the Adjust calls so far
  \* the caller of the low-level API (examples/low-level.c)
  resampler_input_buffer,                    \* the padded input, a function from sample index
  resampler_input_buffer_frames_remaining,
  \* ClownResampler_HighLevel_State
  input_buffer,       \* a function from sample index, defined up to the last sample
                      \* written so far; the samples after it were never written
  input_buffer_start, \* the two pointers, as sample indices into input_buffer
  input_buffer_end,
  maximum_integer_stretched_kernel_radius,
  leading_padding_frames_needed,
  trailing_padding_frames_remaining,
  \* the caller of the high-level API (tests/test-high-level.c) and its producer
  source_position,    \* the frames of the input the input callback has handed over
  input_chunks,       \* the invocations in which it handed over at least one frame
  phase,              \* "resample", then "end" (ClownResampler_HighLevel_ResampleEnd), then "done"
  hl_call,            \* the input callback of the running/last high-level call: "user", "padding"
  hl_ret,             \* what the last high-level call returned: "none", "true", "false"
  \* the running call
  pc,                 \* "idle", or where the running call stands
  input_base,         \* 'input_buffer' of ClownResampler_LowLevel_Resample, as a sample index
  total_input_frames, \* '*total_input_frames'
  chunk,              \* '*total_input_frames' when ClownResampler_LowLevel_Resample started
  ll_ret,             \* what the last ClownResampler_LowLevel_Resample returned
  \* observation
  output,             \* the frames delivered since the rates were last set, oldest first
  delivered,          \* how many frames the output callback received in the running/last API call
  beat,               \* the parity of the output callback's invocations in that call
  callback_stopped,   \* the output callback returned 0 in the running/last API call
  late_callbacks,     \* a callback was invoked in that call after the output callback returned 0
  ever_stopped,       \* the output callback returned 0 at some time in the session
  input_stopped,      \* the input callback returned 0 in the running/last high-level call
  entry_position,     \* position_integer when ClownResampler_LowLevel_Resample started
  last_position,      \* position_integer after its last advance
  faults,             \* failed assertions and undefined accesses so far
  fn_input,           \* the arguments of a function of the library called on its own
  fn_output           \* << >> before that call, << its result >> after it

session_vars == << api, channels_given, pattern, source_frames, record_limit >>

config_vars == << low_level, rates, adjusts >>

low_caller_vars == << resampler_input_buffer, resampler_input_buffer_frames_remaining >>

buffer_vars == << input_buffer, input_buffer_start, input_buffer_end >>

padding_vars ==
  << maximum_integer_stretched_kernel_radius, leading_padding_frames_needed,
     trailing_padding_frames_remaining >>

high_caller_vars == << source_position, input_chunks, phase, hl_call, hl_ret >>

call_vars == << input_base, total_input_frames, chunk, ll_ret >>

watch_vars ==
  << delivered, beat, callback_stopped, late_callbacks, ever_stopped, input_stopped,
     entry_position, last_position >>

function_vars == << fn_input, fn_output >>

vars ==
  << session_vars, config_vars, low_caller_vars, buffer_vars, padding_vars,
     high_caller_vars, pc, call_vars, output, watch_vars, faults, function_vars >>

(* ---------------- the caller of the low-level API ---------------- *)

IntegerRadius(rate) ==
  ClownResampler_LowLevel_Init(1, rate).integer_stretched_kernel_radius

\* The padding at each end of the caller's buffer.  The documentation asks
\* for integer_stretched_kernel_radius frames; a caller that is going to
\* adjust the rates pads for the widest kernel it will use.
PaddingFrames ==
  SetMax({IntegerRadius(rate) : rate \in RateChoices \cup LengthRateChoices})

\* zero padding, the input, zero padding (examples/low-level.c)
PaddedInput(channels, p, frames) ==
  [i \in 0 .. (2 * PaddingFrames + frames) * channels - 1 |->
     LET frame == i \div channels
     IN  IF frame < PaddingFrames \/ frame >= PaddingFrames + frames THEN 0
         ELSE SourceSample(p, frame - PaddingFrames, i % channels)]

\* the frames the calls so far reported as processed
FramesConsumed == source_frames - resampler_input_buffer_frames_remaining

\* The pointer the caller passes: the frame integer_stretched_kernel_radius
\* frames before the first frame not yet processed.
CallerInputPointer ==
  (PaddingFrames + FramesConsumed - low_level.integer_stretched_kernel_radius)
    * low_level.channels

RecordOutput(frame) ==
  IF Len(output) < record_limit THEN Append(output, frame) ELSE output

CountDelivered == IF delivered < record_limit THEN delivered + 1 ELSE delivered

AdjustFaults(resampler) ==
  IF AdjustAssertion(resampler) THEN {} ELSE {"assert_delta"}

\* "CLOWNRESAMPLER_ASSERT(channels <= CLOWNRESAMPLER_MAXIMUM_CHANNELS);"
ChannelFaults(channels) ==
  IF channels <= MAXIMUM_CHANNELS THEN {} ELSE {"assert_channels"}

\* ClownResampler_HighLevel_Init zeroes radius * channels samples of input_buffer
ZeroFaults(resampler) ==
  IF api = "high"
     /\ resampler.integer_stretched_kernel_radius * resampler.channels > INPUT_BUFFER_COUNT
  THEN {"undefined_write"} ELSE {}

\* what both APIs start from, the arguments of Init drawn from the given sets
InitSession(rate_choices, channel_choices, pattern_choices, limit, most_frames) ==
  /\ record_limit = limit
  /\ rates \in rate_choices
  /\ channels_given \in channel_choices
  /\ pattern \in pattern_choices
  /\ source_frames \in 0 .. most_frames
  /\ low_level = ClownResampler_LowLevel_Init(channels_given, rates)
  /\ adjusts = 0
  /\ pc = "idle"
  /\ input_base = 0
  /\ total_input_frames = 0
  /\ chunk = 0
  /\ ll_ret = "none"
  /\ output = << >>
  /\ delivered = 0
  /\ beat = 0
  /\ callback_stopped = FALSE
  /\ late_callbacks = FALSE
  /\ ever_stopped = FALSE
  /\ input_stopped = FALSE
  /\ entry_position = 0
  /\ last_position = 0
  /\ faults = AdjustFaults(low_level) \cup ChannelFaults(channels_given)
                \cup ZeroFaults(low_level)
  /\ source_position = 0
  /\ input_chunks = 0
  /\ hl_call = "none"
  /\ hl_ret = "none"

\* no function of the library is called on its own
FunctionIdle == fn_input = << >> /\ fn_output = << >>

InitCommon(rate_choices, limit, most_frames) ==
  InitSession(rate_choices, ChannelChoices, PatternChoices, limit, most_frames)

\* after ClownResampler_LowLevel_Init, with the caller's buffer set up
InitLowLevelWith(rate_choices, channel_choices, pattern_choices, limit) ==
  /\ api = "low"
  /\ InitSession(rate_choices, channel_choices, pattern_choices, limit, MaxInputFrames)
  /\ FunctionIdle
  /\ resampler_input_buffer = PaddedInput(channels_given, pattern, source_frames)
  /\ resampler_input_buffer_frames_remaining = source_frames
  /\ input_buffer = << >>
  /\ input_buffer_start = 0
  /\ input_buffer_end = 0
  /\ maximum_integer_stretched_kernel_radius = 0
  /\ leading_padding_frames_needed = 0
  /\ trailing_padding_frames_remaining = 0
  /\ phase = "none"

InitLowLevel(rate_choices, limit) ==
  InitLowLevelWith(rate_choices, ChannelChoices, PatternChoices, limit)

InitLow == InitLowLevel(RateChoices, MaxOutputFrames)

\* ClownResampler_LowLevel_Adjust between two resample calls
LowLevel_Adjust(rate) ==
  /\ api = "low"
  /\ pc = "idle"
  /\ adjusts < MaxAdjusts
  /\ low_level' = ClownResampler_LowLevel_Adjust(low_level, rate)
  /\ rates' = rate
  /\ adjusts' = adjusts + 1
  /\ faults' = faults \cup AdjustFaults(low_level')
  /\ output' = << >>
  /\ UNCHANGED << session_vars, function_vars, low_caller_vars, buffer_vars, padding_vars, high_caller_vars,
                  pc, call_vars, watch_vars >>

\* the caller starts ClownResampler_LowLevel_Resample on the next 'frames'
\* frames of its buffer
LowLevel_Resample_Call(frames) ==
  /\ api = "low"
  /\ pc = "idle"
  /\ input_base' = CallerInputPointer
  /\ total_input_frames' = frames
  /\ chunk' = frames
  /\ ll_ret' = "none"
  /\ pc' = "resample"
  /\ delivered' = 0
  /\ beat' = 0
  /\ callback_stopped' = FALSE
  /\ late_callbacks' = FALSE
  /\ entry_position' = low_level.position_integer
  /\ last_position' = low_level.position_integer
  /\ UNCHANGED << session_vars, function_vars, config_vars, low_caller_vars, buffer_vars, padding_vars,
                  high_caller_vars, output, ever_stopped, input_stopped, faults >>

(* ---------------- ClownResampler_LowLevel_Resample ---------------- *)

\* the storage the 'input_buffer' parameter points into
InputStorage == IF api = "low" THEN resampler_input_buffer ELSE input_buffer

\* a variant that rounds the position to a whole frame when it carries
AdvancePositionRounded(resampler) ==
  LET fractional == resampler.position_fractional + resampler.increment
  IN  [resampler EXCEPT
         !.position_integer = @ + TO_INTEGER_FROM_FIXED_POINT_FLOOR(fractional),
         !.position_fractional =
            IF fractional >= FIXED_POINT_FRACTIONAL_SIZE THEN 0 ELSE fractional]

\* a variant that also recomputes the step through the kernel
AdvancePositionAndStep(resampler) ==
  LET fractional == resampler.position_fractional + resampler.increment
  IN  [resampler EXCEPT
         !.position_integer = @ + TO_INTEGER_FROM_FIXED_POINT_FLOOR(fractional),
         !.position_fractional = fractional % FIXED_POINT_FRACTIONAL_SIZE,
         !.kernel_step_size = KERNEL_RESOLUTION]

\* a variant that leaves the carried frames in position_fractional
AdvancePositionUnreduced(resampler) ==
  LET fractional == resampler.position_fractional + resampler.increment
  IN  [resampler EXCEPT
         !.position_integer = @ + TO_INTEGER_FROM_FIXED_POINT_FLOOR(fractional),
         !.position_fractional = fractional]

\* the position after "Increment input buffer position"
AdvancePosition(resampler) ==
  LET fractional == resampler.position_fractional + resampler.increment
  IN  [resampler EXCEPT
         !.position_integer = @ + TO_INTEGER_FROM_FIXED_POINT_FLOOR(fractional),
         !.position_fractional = fractional % FIXED_POINT_FRACTIONAL_SIZE]

\* a variant that reports the whole chunk as processed
StopDeltaWholeChunk(position_integer, total) == total

\* a variant without the clamp to the frames of the chunk
StopDeltaUnclamped(position_integer, total) == position_integer

\* a variant that reports no frame as processed
StopDeltaNothing(position_integer, total) == 0

\* 'delta' of the branch taken when the output callback returns 0
StopDelta(position_integer, total) == CLOWNRESAMPLER_MIN(position_integer, total)

\* a variant that drops the carry into the next chunk
ExhaustedPositionReset(position_integer, total) == 0

\* position_integer after the branch taken at the end of the input
ExhaustedPosition(position_integer, total) == position_integer - total

\* a variant that tests '>' in place of '>='
EndOfInputPassed(position_integer, total) == position_integer > total

\* the loop's test "Check if we've reached the end of the input buffer"
EndOfInput(position_integer, total) == position_integer >= total

\* a variant that ignores the callback's answer
OutputCallbackIgnored(keep_going) == FALSE

\* "if (!resampler_output_callback(...))": the answer that ends the call
OutputCallbackStops(keep_going) == ~keep_going

\* what the frame computed now holds: ClownResampler_ComputeFrame's result,
\* or anything when it reads outside its buffers or reads indeterminate storage
FrameChoices ==
  IF ReadsDefined(low_level, InputStorage, input_base,
                  low_level.position_integer, low_level.position_fractional)
  THEN { ClownResampler_ComputeFrame(low_level, InputStorage, input_base,
           low_level.position_integer, low_level.position_fractional) }
  ELSE { [c \in 1 .. low_level.channels |-> v] : v \in {0, Indeterminate} }

\* the samples of the storage the 'input_buffer' parameter points into
InputCapacity ==
  IF api = "low" THEN Cardinality(DOMAIN resampler_input_buffer) ELSE INPUT_BUFFER_COUNT

FrameFaults ==
  (IF ReadsDefined(low_level, InputStorage, input_base,
                   low_level.position_integer, low_level.position_fractional)
   THEN {} ELSE {"undefined_read"})
  \cup
  (IF KernelIndicesInRange(low_level, low_level.position_fractional)
   THEN {} ELSE {"assert_kernel_index"})
  \cup
  (IF SampleIndicesInRange(low_level, InputCapacity, input_base,
                           low_level.position_integer, low_level.position_fractional)
   THEN {} ELSE {"read_out_of_range"})
  \cup
  (IF ComputeFrameAssertions(low_level, low_level.position_fractional)
   THEN {} ELSE {"assert_relative"})

\* a variant that keeps looping after the low-level call returned false
HighLevelNeverStops(ret) == FALSE

\* "reached_end_of_output_buffer = ClownResampler_LowLevel_Resample(...) == 0"
\* and "while (!reached_end_of_output_buffer); return cc_false;" of
\* ClownResampler_HighLevel_Resample
HighLevelStops(ret) == ret = "false"

\* The code that runs when ClownResampler_LowLevel_Resample returns 'ret'
\* with 'remaining' in *total_input_frames: the low-level caller's
\* bookkeeping, or the rest of the do-loop of ClownResampler_HighLevel_Resample.
Return(remaining, ret) ==
  IF api = "low"
  THEN /\ pc' = "idle"
       /\ resampler_input_buffer_frames_remaining' =
            resampler_input_buffer_frames_remaining - (chunk - remaining)
       /\ UNCHANGED << resampler_input_buffer, buffer_vars, high_caller_vars >>
  ELSE /\ input_buffer_start' = input_buffer_end - remaining * low_level.channels
       /\ pc' = IF HighLevelStops(ret) THEN "idle" ELSE "do"
       /\ hl_ret' = IF HighLevelStops(ret) THEN "false" ELSE hl_ret
       /\ UNCHANGED << low_caller_vars, input_buffer, input_buffer_end, source_position,
                       input_chunks, phase, hl_call >>

\* the end of the input is reached: the call returns cc_true
LowLevel_Resample_EndOfInput ==
  /\ pc = "resample"
  /\ EndOfInput(low_level.position_integer, total_input_frames)
  /\ low_level' = [low_level EXCEPT
                     !.position_integer = ExhaustedPosition(@, total_input_frames)]
  /\ total_input_frames' = 0
  /\ ll_ret' = "true"
  /\ Return(0, "true")
  /\ UNCHANGED << session_vars, function_vars, rates, adjusts, padding_vars, input_base, chunk, output,
                  watch_vars, faults >>

\* one frame: compute it, advance, hand it to the output callback, which
\* answers keep_going; on 0 the call returns cc_false
LowLevel_Resample_Frame(keep_going) ==
  /\ pc = "resample"
  /\ ~EndOfInput(low_level.position_integer, total_input_frames)
  /\ \E frame \in FrameChoices : output' = RecordOutput(frame)
  /\ faults' = faults \cup FrameFaults
  /\ delivered' = CountDelivered
  /\ beat' = 1 - beat
  /\ last_position' = AdvancePosition(low_level).position_integer
  /\ callback_stopped' = ~keep_going
  /\ late_callbacks' = (late_callbacks \/ callback_stopped)
  /\ ever_stopped' = (ever_stopped \/ ~keep_going)
  /\ IF ~OutputCallbackStops(keep_going)
     THEN /\ low_level' = AdvancePosition(low_level)
          /\ UNCHANGED << pc, low_caller_vars, buffer_vars, high_caller_vars, call_vars >>
     ELSE LET advanced == AdvancePosition(low_level)
              delta == StopDelta(advanced.position_integer, total_input_frames)
          IN  /\ total_input_frames' = total_input_frames - delta
              /\ low_level' = [advanced EXCEPT !.position_integer = @ - delta]
              /\ ll_ret' = "false"
              /\ Return(total_input_frames - delta, "false")
              /\ UNCHANGED << input_base, chunk >>
  /\ UNCHANGED << session_vars, function_vars, rates, adjusts, padding_vars, input_stopped, entry_position >>

(* ---------------- the high-level API ---------------- *)

\* a variant without the blanking of the kernel's left side
BlankedAtInitNothing(radius_in_samples) == {}

\* "CLOWNRESAMPLER_ZERO(resampler->input_buffer, ...)": the samples of
\* input_buffer that Init writes; the others hold what the memory held
BlankedAtInit(radius_in_samples) ==
  0 .. CLOWNRESAMPLER_MIN(radius_in_samples, INPUT_BUFFER_COUNT) - 1

\* after ClownResampler_HighLevel_Init
InitHighLevelWith(rate_choices, channel_choices, pattern_choices, limit) ==
  /\ api = "high"
  /\ InitSession(rate_choices, channel_choices, pattern_choices, limit, MaxStreamFrames)
  /\ FunctionIdle
  /\ resampler_input_buffer = << >>
  /\ resampler_input_buffer_frames_remaining = 0
  /\ maximum_integer_stretched_kernel_radius = low_level.integer_stretched_kernel_radius
  /\ leading_padding_frames_needed = low_level.integer_stretched_kernel_radius
  /\ trailing_padding_frames_remaining = low_level.integer_stretched_kernel_radius
  /\ input_buffer =
       [i \in BlankedAtInit(maximum_integer_stretched_kernel_radius
                             * low_level.channels) |-> 0]
  /\ input_buffer_start = maximum_integer_stretched_kernel_radius * low_level.channels
  /\ input_buffer_end = maximum_integer_stretched_kernel_radius * low_level.channels
  /\ phase = "resample"

InitHighLevel(rate_choices, limit) ==
  InitHighLevelWith(rate_choices, ChannelChoices, PatternChoices, limit)

InitHigh == InitHighLevel(RateChoices, MaxOutputFrames)

maximum_radius_in_samples == maximum_integer_stretched_kernel_radius * low_level.channels

double_maximum_radius_in_samples == maximum_radius_in_samples * 2

\* a variant whose padding callback hands over nothing
InputAnswersWithoutPadding(request) ==
  IF hl_call = "user"
  THEN LET left == source_frames - source_position
       IN  IF left = 0 \/ request = 0 THEN {0}
           ELSE 1 .. CLOWNRESAMPLER_MIN(request, left)
  ELSE {0}

\* What an input callback may return when asked for at most 'request'
\* frames: the producer hands over between 1 and 'request' of the frames it
\* has left and 0 at the end of its input; ClownResampler_PaddingCallback
\* hands over min(request, trailing_padding_frames_remaining).
InputAnswers(request) ==
  IF hl_call = "user"
  THEN LET left == source_frames - source_position
       IN  IF left = 0 \/ request = 0 THEN {0}
           ELSE 1 .. CLOWNRESAMPLER_MIN(request, left)
  ELSE { CLOWNRESAMPLER_MIN(request, trailing_padding_frames_remaining) }

\* a variant that asks for a whole buffer of frames
RefillRequestWholeBuffer == INPUT_BUFFER_COUNT \div low_level.channels

\* the frames the refill asks its input callback for
RefillRequest ==
  (INPUT_BUFFER_COUNT - double_maximum_radius_in_samples) \div low_level.channels

\* the content of sample i of input_buffer
Stored(buffer, i) == IF i \in DOMAIN buffer THEN buffer[i] ELSE Indeterminate

\* the samples of input_buffer written once the samples before 'top' were
Extent(buffer, top) ==
  0 .. CLOWNRESAMPLER_MIN(CLOWNRESAMPLER_MAX(Cardinality(DOMAIN buffer), top),
                          INPUT_BUFFER_COUNT) - 1

\* 'buffer' after the input callback wrote 'frames_read' frames at 'destination'
InputWritten(buffer, destination, frames_read) ==
  [i \in Extent(buffer, destination + frames_read * low_level.channels) |->
     IF i >= destination /\ i < destination + frames_read * low_level.channels
     THEN IF hl_call = "user"
          THEN SourceSample(pattern,
                 source_position + (i - destination) \div low_level.channels,
                 (i - destination) % low_level.channels)
          ELSE 0
     ELSE Stored(buffer, i)]

\* a variant whose padding callback does not count what it hands over
InputTakenUncounted(frames_read) ==
  /\ source_position' = IF hl_call = "user" THEN source_position + frames_read
                        ELSE source_position
  /\ input_chunks' = IF hl_call = "user" /\ frames_read # 0 THEN input_chunks + 1
                     ELSE input_chunks
  /\ UNCHANGED trailing_padding_frames_remaining

\* what the input callback does to the caller's and the padding counters
InputTaken(frames_read) ==
  /\ source_position' = IF hl_call = "user" THEN source_position + frames_read
                        ELSE source_position
  /\ input_chunks' = IF hl_call = "user" /\ frames_read # 0 THEN input_chunks + 1
                     ELSE input_chunks
  /\ trailing_padding_frames_remaining' =
       IF hl_call = "user" THEN trailing_padding_frames_remaining
       ELSE trailing_padding_frames_remaining - frames_read

\* a variant that leaves the tail of the last batch where it is
MemMoveNothing(buffer, source, count) == buffer

\* a variant that moves the left context only
MemMoveHalf(buffer, source, count) ==
  [i \in Extent(buffer, count) |->
     IF i < count \div 2 THEN Stored(buffer, source + i) ELSE Stored(buffer, i)]

\* CLOWNRESAMPLER_MEMMOVE(buffer, buffer + source, count samples)
MemMove(buffer, source, count) ==
  [i \in Extent(buffer, count) |->
     IF i < count THEN Stored(buffer, source + i) ELSE Stored(buffer, i)]

WriteFaults(destination, frames_read) ==
  IF destination >= 0 /\ destination + frames_read * low_level.channels <= INPUT_BUFFER_COUNT
  THEN {} ELSE {"undefined_write"}

\* the range of 'request' frames at 'destination' the input callback is
\* offered lies inside input_buffer
OfferFaults(destination, request) ==
  IF destination >= 0 /\ destination + request * low_level.channels <= INPUT_BUFFER_COUNT
  THEN {} ELSE {"offer_out_of_range"}

\* the samples CLOWNRESAMPLER_MEMMOVE reads and writes lie inside input_buffer
MoveFaults(source, count) ==
  IF source >= 0 /\ source + count <= INPUT_BUFFER_COUNT /\ count <= INPUT_BUFFER_COUNT
  THEN {} ELSE {"undefined_move"}

\* a variant without the check against the radius given to Init
RadiusUnchecked(maximum, radius) == TRUE

\* "CLOWNRESAMPLER_ASSERT(resampler->maximum_integer_stretched_kernel_radius
\*    >= resampler->low_level.integer_stretched_kernel_radius);"
RadiusWithinMaximum(maximum, radius) == maximum >= radius

\* "CLOWNRESAMPLER_ASSERT(resampler->low_level.integer_stretched_kernel_radius * 2
\*    < CLOWNRESAMPLER_COUNT_OF(resampler->input_buffer) / resampler->low_level.channels);"
\* with no channels the division is undefined
CapacityFaults(resampler) ==
  IF resampler.channels = 0 THEN {"undefined_division"}
  ELSE IF resampler.integer_stretched_kernel_radius * 2
            < INPUT_BUFFER_COUNT \div resampler.channels
       THEN {} ELSE {"assert_capacity"}

\* what ClownResampler_HighLevel_Adjust finds wrong after it adjusted low_level
HighLevelAdjustFaults(maximum, resampler) ==
  AdjustFaults(resampler)
  \cup (IF RadiusWithinMaximum(maximum, resampler.integer_stretched_kernel_radius)
        THEN {} ELSE {"assert_maximum"})
  \cup CapacityFaults(resampler)

\* ClownResampler_HighLevel_Adjust between two high-level calls
HighLevel_Adjust(rate) ==
  /\ api = "high"
  /\ pc = "idle"
  /\ adjusts < MaxAdjusts
  /\ low_level' = ClownResampler_LowLevel_Adjust(low_level, rate)
  /\ rates' = rate
  /\ adjusts' = adjusts + 1
  /\ faults' = faults
       \cup HighLevelAdjustFaults(maximum_integer_stretched_kernel_radius, low_level')
  /\ output' = << >>
  /\ UNCHANGED << session_vars, function_vars, low_caller_vars, buffer_vars, padding_vars, high_caller_vars,
                  pc, call_vars, watch_vars >>

\* the high-level call returns cc_true
ReturnTrue ==
  /\ pc' = "idle"
  /\ hl_ret' = "true"
  /\ phase' = IF hl_call = "user" THEN "end" ELSE "done"

\* ClownResampler_HighLevel_Resample (callback = "user") or
\* ClownResampler_HighLevel_ResampleEnd (callback = "padding") is called
HighLevel_Call(callback) ==
  /\ api = "high"
  /\ pc = "idle"
  /\ \/ callback = "user" /\ phase = "resample"
     \/ callback = "padding" /\ phase = "end"
  /\ hl_call' = callback
  /\ hl_ret' = "none"
  /\ pc' = IF leading_padding_frames_needed # 0 THEN "leading" ELSE "do"
  /\ delivered' = 0
  /\ beat' = 0
  /\ callback_stopped' = FALSE
  /\ late_callbacks' = FALSE
  /\ input_stopped' = FALSE
  /\ UNCHANGED << session_vars, function_vars, config_vars, low_caller_vars, buffer_vars, padding_vars,
                  source_position, input_chunks, phase, call_vars, output, ever_stopped,
                  entry_position, last_position, faults >>

\* a variant that asks for a whole radius in every round
LeadingRequestWhole == maximum_integer_stretched_kernel_radius

\* the frames a round of the leading loop asks its input callback for
LeadingRequest == leading_padding_frames_needed

\* one round of "while (resampler->leading_padding_frames_needed != 0)"
HighLevel_Leading(frames_read) ==
  /\ pc = "leading"
  /\ LET destination == double_maximum_radius_in_samples
                          - leading_padding_frames_needed * low_level.channels
     IN  /\ input_buffer' = InputWritten(input_buffer, destination, frames_read)
         /\ faults' = faults \cup WriteFaults(destination, frames_read)
              \cup OfferFaults(destination, LeadingRequest)
  /\ InputTaken(frames_read)
  /\ late_callbacks' = (late_callbacks \/ callback_stopped)
  /\ input_stopped' = (frames_read = 0)
  /\ IF frames_read = 0
     THEN /\ ReturnTrue
          /\ UNCHANGED leading_padding_frames_needed
     ELSE /\ leading_padding_frames_needed' = leading_padding_frames_needed - frames_read
          /\ pc' = IF leading_padding_frames_needed' # 0 THEN "leading" ELSE "do"
          /\ UNCHANGED << phase, hl_ret >>
  /\ UNCHANGED << session_vars, function_vars, config_vars, low_caller_vars, input_buffer_start,
                  input_buffer_end, maximum_integer_stretched_kernel_radius, hl_call,
                  call_vars, output, delivered, beat, callback_stopped, ever_stopped,
                  entry_position, last_position >>

\* "If the input buffer is empty, refill it."
HighLevel_Refill(frames_read) ==
  /\ pc = "do"
  /\ input_buffer_start = input_buffer_end
  /\ LET moved == MemMove(input_buffer, input_buffer_end - maximum_radius_in_samples,
                          double_maximum_radius_in_samples)
     IN  /\ input_buffer' = InputWritten(moved, double_maximum_radius_in_samples, frames_read)
         /\ faults' = faults
              \cup WriteFaults(double_maximum_radius_in_samples, frames_read)
              \cup OfferFaults(double_maximum_radius_in_samples, RefillRequest)
              \cup MoveFaults(input_buffer_end - maximum_radius_in_samples,
                              double_maximum_radius_in_samples)
  /\ InputTaken(frames_read)
  /\ input_buffer_start' = maximum_radius_in_samples
  /\ input_buffer_end' = maximum_radius_in_samples + frames_read * low_level.channels
  /\ late_callbacks' = (late_callbacks \/ callback_stopped)
  /\ input_stopped' = (frames_read = 0)
  /\ IF input_buffer_start' = input_buffer_end'
     THEN ReturnTrue
     ELSE /\ pc' = "call"
          /\ UNCHANGED << phase, hl_ret >>
  /\ UNCHANGED << session_vars, function_vars, config_vars, low_caller_vars,
                  maximum_integer_stretched_kernel_radius, leading_padding_frames_needed,
                  hl_call, call_vars, output, delivered, beat, callback_stopped, ever_stopped,
                  entry_position, last_position >>

\* "Call the actual resampler."
\* a variant that holds the last frame of a batch back
EngineInputFramesLess ==
  CLOWNRESAMPLER_MAX((input_buffer_end - input_buffer_start) \div low_level.channels - 1, 1)

\* "input_frames = (resampler->input_buffer_end - resampler->input_buffer_start)
\*    / resampler->low_level.channels;"
EngineInputFrames == (input_buffer_end - input_buffer_start) \div low_level.channels

HighLevel_CallLowLevel ==
  /\ \/ pc = "call"
     \/ pc = "do" /\ input_buffer_start # input_buffer_end
  /\ input_base' = input_buffer_start
                     - low_level.integer_stretched_kernel_radius * low_level.channels
  /\ total_input_frames' = EngineInputFrames
  /\ chunk' = EngineInputFrames
  /\ ll_ret' = "none"
  /\ pc' = "resample"
  /\ entry_position' = low_level.position_integer
  /\ last_position' = low_level.position_integer
  /\ UNCHANGED << session_vars, function_vars, config_vars, low_caller_vars, buffer_vars, padding_vars,
                  high_caller_vars, output, delivered, beat, callback_stopped, late_callbacks,
                  ever_stopped, input_stopped, faults >>

Init == InitLow \/ InitHigh

Next ==
  \/ \E rate \in RateChoices : LowLevel_Adjust(rate)
  \/ \E frames \in 0 .. resampler_input_buffer_frames_remaining : LowLevel_Resample_Call(frames)
  \/ \E callback \in {"user", "padding"} : HighLevel_Call(callback)
  \/ \E frames_read \in InputAnswers(LeadingRequest) :
       HighLevel_Leading(frames_read)
  \/ \E frames_read \in InputAnswers(RefillRequest) : HighLevel_Refill(frames_read)
  \/ HighLevel_CallLowLevel
  \/ LowLevel_Resample_EndOfInput
  \/ \E keep_going \in BOOLEAN : LowLevel_Resample_Frame(keep_going)

Spec == Init /\ [][Next]_vars

(* ---------------- one uninterrupted call, as a function ---------------- *)

RECURSIVE UninterruptedFrames(_, _, _, _, _)
\* The first 'limit' frames ClownResampler_LowLevel_Resample delivers in one
\* call on 'total' frames whose output callback never returns 0.
UninterruptedFrames(resampler, buffer, base, total, limit) ==
  IF limit = 0 \/ resampler.position_integer >= total THEN << >>
  ELSE << ClownResampler_ComputeFrame(resampler, buffer, base,
            resampler.position_integer, resampler.position_fractional) >>
       \o UninterruptedFrames(AdvancePosition(resampler), buffer, base, total, limit - 1)

\* the frames one call delivers for a whole input, from a fresh Init
OneShotFrames(channels, rate, p, frames, limit) ==
  LET resampler == ClownResampler_LowLevel_Init(channels, rate)
  IN  UninterruptedFrames(resampler, PaddedInput(channels, p, frames),
        (PaddingFrames - resampler.integer_stretched_kernel_radius) * channels,
        frames, limit)

(* ---------------- sessions whose output callback never stops ---------------- *)

\* the rates none of which is zero
NonzeroRateChoices ==
  { rate \in RateChoices : rate[1] # 0 /\ rate[2] # 0 /\ rate[3] # 0 }

InitNeverStops == InitLowLevel(NonzeroRateChoices, MaxOutputFrames)

NextNeverStops ==
  \/ \E frames \in 0 .. resampler_input_buffer_frames_remaining : LowLevel_Resample_Call(frames)
  \/ LowLevel_Resample_EndOfInput
  \/ LowLevel_Resample_Frame(TRUE)

\* A call that was entered keeps executing: the loop of
\* ClownResampler_LowLevel_Resample takes its next step whenever it has one.
\* (Every frame flips 'beat', so a step of the loop always changes the state.)
SpecNeverStops ==
  /\ InitNeverStops
  /\ [][NextNeverStops]_vars
  /\ WF_vars(LowLevel_Resample_EndOfInput)
  /\ WF_vars(LowLevel_Resample_Frame(TRUE))

\* sessions that resample their whole input in one call and count the frames
InitLength == InitLowLevel(LengthRateChoices, MaxCountedFrames)

NextLength ==
  \/ LowLevel_Resample_Call(resampler_input_buffer_frames_remaining)
  \/ LowLevel_Resample_EndOfInput
  \/ LowLevel_Resample_Frame(TRUE)

SpecLength == InitLength /\ [][NextLength]_vars

\* sessions of both APIs whose input and output rates are equal
InitIdentity ==
  \/ InitLowLevel(IdentityRateChoices, MaxOutputFrames)
  \/ InitHighLevel(IdentityRateChoices, MaxOutputFrames)

SpecIdentity == InitIdentity /\ [][Next]_vars

\* sessions of both APIs whose input is silence
InitSilence ==
  \/ InitLowLevelWith(RateChoices, ChannelChoices, SilencePatternChoices, MaxOutputFrames)
  \/ InitHighLevelWith(RateChoices, ChannelChoices, SilencePatternChoices, MaxOutputFrames)

SpecSilence == InitSilence /\ [][Next]_vars

\* high-level sessions whose rates are adjusted between calls
InitAdjust == InitHighLevel(AdjustRateChoices, MaxOutputFrames)

NextAdjust ==
  \/ \E rate \in AdjustRateChoices : HighLevel_Adjust(rate)
  \/ \E callback \in {"user", "padding"} : HighLevel_Call(callback)
  \/ \E frames_read \in InputAnswers(LeadingRequest) :
       HighLevel_Leading(frames_read)
  \/ \E frames_read \in InputAnswers(RefillRequest) : HighLevel_Refill(frames_read)
  \/ HighLevel_CallLowLevel
  \/ LowLevel_Resample_EndOfInput
  \/ \E keep_going \in BOOLEAN : LowLevel_Resample_Frame(keep_going)

SpecAdjust == InitAdjust /\ [][NextAdjust]_vars

\* sessions that configure a resampler and resample nothing: Init with any
\* of the arguments of ConfigRateChoices and ConfigChannelChoices, then Adjust
InitConfig ==
  \/ InitLowLevelWith(ConfigRateChoices, ConfigChannelChoices, PatternChoices,
                      MaxOutputFrames)
  \/ InitHighLevelWith(ConfigRateChoices, ConfigChannelChoices, PatternChoices,
                       MaxOutputFrames)

NextConfig ==
  \/ \E rate \in ConfigRateChoices : LowLevel_Adjust(rate)
  \/ \E rate \in ConfigRateChoices : HighLevel_Adjust(rate)

SpecConfig == InitConfig /\ [][NextConfig]_vars

\* sessions of both APIs that change their rates between calls
InitCarry ==
  \/ InitLowLevel(CarryRateChoices, MaxOutputFrames)
  \/ InitHighLevel(CarryRateChoices, MaxOutputFrames)

NextCarry ==
  \/ \E rate \in CarryRateChoices : LowLevel_Adjust(rate)
  \/ \E rate \in CarryRateChoices : HighLevel_Adjust(rate)
  \/ \E frames \in 0 .. resampler_input_buffer_frames_remaining : LowLevel_Resample_Call(frames)
  \/ \E callback \in {"user", "padding"} : HighLevel_Call(callback)
  \/ \E frames_read \in InputAnswers(LeadingRequest) :
       HighLevel_Leading(frames_read)
  \/ \E frames_read \in InputAnswers(RefillRequest) : HighLevel_Refill(frames_read)
  \/ HighLevel_CallLowLevel
  \/ LowLevel_Resample_EndOfInput
  \/ \E keep_going \in BOOLEAN : LowLevel_Resample_Frame(keep_going)

SpecCarry == InitCarry /\ [][NextCarry]_vars

(* ---------------- functions called on their own ---------------- *)

\* no resampler is in use
SessionIdle ==
  /\ api = "none"
  /\ InitSession({<<1, 1, 1>>}, {1}, SilencePatternChoices, 0, 0)
  /\ resampler_input_buffer = << >>
  /\ resampler_input_buffer_frames_remaining = 0
  /\ input_buffer = << >>
  /\ input_buffer_start = 0
  /\ input_buffer_end = 0
  /\ maximum_integer_stretched_kernel_radius = 0
  /\ leading_padding_frames_needed = 0
  /\ trailing_padding_frames_remaining = 0
  /\ phase = "none"

\* the function returns 'result'
FunctionReturns(result) ==
  /\ fn_output = << >>
  /\ fn_output' = << result >>
  /\ UNCHANGED << session_vars, config_vars, low_caller_vars, buffer_vars, padding_vars,
                  high_caller_vars, pc, call_vars, output, watch_vars, faults, fn_input >>

\* the pairs a, b with a * 2^16 / b below 2^31
RatioArguments ==
  { ab \in RatioOperandChoices \X RatioOperandChoices :
      ab[1] \div ab[2] < FIXED_POINT_FRACTIONAL_SIZE \div 2 }

InitRatio ==
  /\ SessionIdle
  /\ fn_input \in RatioArguments
  /\ fn_output = << >>

\* ClownResampler_CalculateRatio(a, b) where cc_u32f has 32 bits
CalculateRatio_Call == FunctionReturns(CalculateRatio32(fn_input[1], fn_input[2]))

SpecRatio == InitRatio /\ [][CalculateRatio_Call]_vars

Scaled(rate, k) == << k * rate[1], k * rate[2], k * rate[3] >>

InitScale ==
  /\ SessionIdle
  /\ fn_input \in ScaledRateChoices \X ScaleChoices
  /\ fn_output = << >>

\* ClownResampler_LowLevel_Init(1 channel, k * a, k * b, k * c) where cc_u32f
\* has 32 bits
LowLevel_Init_Call ==
  FunctionReturns(LowLevel_Init32(1, Scaled(fn_input[1], fn_input[2])))

SpecScale == InitScale /\ [][LowLevel_Init_Call]_vars

(* ---------------- ClownResampler_ComputeFrame on its own ---------------- *)

\* the state ClownResampler_ComputeFrame is called on
OverflowResampler == ClownResampler_LowLevel_Init(1, fn_input[1])

OverflowTaps == Taps(OverflowResampler, 0, fn_input[2])

\* the kernel value of iteration t
OverflowKernelValue(t) == KernelValue(TapKernelIndex(OverflowResampler, fn_input[2], t))

\* input_buffer[sample_index] in iteration t
ExtremeSample(t) ==
  IF fn_input[3] = "least" THEN -32768
  ELSE IF (fn_input[3] = "highest") = (OverflowKernelValue(t) >= 0) THEN 32767
       ELSE -32768

Magnitude(x) == IF x >= 0 THEN x ELSE -x

\* a * b lies in the range of a 32-bit cc_s32f
ProductFits(a, b) ==
  \/ a = 0
  \/ b = 0
  \/ /\ (a > 0) = (b > 0)
     /\ Magnitude(a) <= MaxS32 \div Magnitude(b)
  \/ /\ (a > 0) # (b > 0)
     /\ Magnitude(a) - 1 <= MaxS32 \div Magnitude(b)

\* a + b lies in the range of a 32-bit cc_s32f
SumFits(a, b) ==
  IF b >= 0 THEN a <= MaxS32 - b ELSE a + 1 >= (-MaxS32) - b

\* "CLOWNRESAMPLER_FIXED_POINT_MULTIPLY((cc_s32f)input_buffer[...], kernel_value)";
\* -32768 * 65536 is the least cc_s32f, which the model's integers stop short of
TapTerm(sample, kernel_value) ==
  IF sample = -32768 /\ kernel_value = FIXED_POINT_FRACTIONAL_SIZE THEN -32768
  ELSE FIXED_POINT_MULTIPLY(sample, kernel_value)

\* fn_output is << iterations done, samples[0] >>, and after the
\* normalisation << iterations done, the sum, samples[0] >>
InitOverflow ==
  /\ SessionIdle
  /\ fn_input \in OverflowRateChoices \X OverflowFractionChoices \X InputPolarities
  /\ fn_output = << 0, InitialAccumulator >>

FunctionStep ==
  UNCHANGED << session_vars, config_vars, low_caller_vars, buffer_vars, padding_vars,
               high_caller_vars, pc, call_vars, output, watch_vars, faults, fn_input >>

\* one iteration of the convolution loop
ComputeFrame_Tap ==
  /\ Len(fn_output) = 2
  /\ fn_output[1] \in OverflowTaps
  /\ fn_output' =
       << fn_output[1] + 1,
          fn_output[2] + TapTerm(ExtremeSample(fn_output[1]),
                                 OverflowKernelValue(fn_output[1])) >>
  /\ FunctionStep

\* "samples[current_channel] = (samples[current_channel] *
\*    resampler->sample_normaliser) / (1 << 15);": any value when the
\* product overflows
ComputeFrame_Normalise ==
  /\ Len(fn_output) = 2
  /\ fn_output[1] \notin OverflowTaps
  /\ \E normalised \in
         IF ProductFits(fn_output[2], OverflowResampler.sample_normaliser)
         THEN { CDiv(fn_output[2] * OverflowResampler.sample_normaliser,
                     FIXED_POINT_FRACTIONAL_SIZE \div 2) }
         ELSE { 0, Indeterminate } :
       fn_output' = << fn_output[1], fn_output[2], normalised >>
  /\ FunctionStep

NextOverflow ==
  \/ ComputeFrame_Tap
  \/ ComputeFrame_Normalise

SpecOverflow == InitOverflow /\ [][NextOverflow]_vars

(* ---------------- a frame of a constant input ---------------- *)

\* the state after ClownResampler_LowLevel_Init with the rates of fn_input
ConstantResampler == ClownResampler_LowLevel_Init(1, fn_input[1])

\* position_fractional when frame n since Init is computed: the position
\* advances by 'increment' per frame
FractionOfFrame(resampler, n) == (n * resampler.increment) % FIXED_POINT_FRACTIONAL_SIZE

\* an input buffer whose frames all hold v, as wide as the widest window:
\* what ClownResampler_ComputeFrame reads once its window has left the
\* leading padding and not reached the trailing padding
ConstantInput(resampler, v) ==
  [i \in 0 .. 2 * resampler.integer_stretched_kernel_radius + 1 |-> v]

\* fn_input is << rates, frame number, value of the input >>
InitConstant ==
  /\ SessionIdle
  /\ fn_input \in ConstantRateChoices \X ConstantFrameChoices \X ConstantValueChoices
  /\ fn_output = << >>

ComputeFrame_Call ==
  FunctionReturns(
    ClownResampler_ComputeFrame(ConstantResampler,
      ConstantInput(ConstantResampler, fn_input[3]), 0, 0,
      FractionOfFrame(ConstantResampler, fn_input[2]))[1])

SpecConstant == InitConstant /\ [][ComputeFrame_Call]_vars

(* ---------------- the entries of the kernel table ---------------- *)

\* the indices of lanczos_kernel_table
KernelIndexChoices == 0 .. KERNEL_TABLE_COUNT - 1

\* fn_input is << i >>
InitKernel ==
  /\ SessionIdle
  /\ fn_input \in { << i >> : i \in KernelIndexChoices }
  /\ fn_output = << >>

\* the entry ClownResampler_Precompute stores at index i
Precompute_Entry == FunctionReturns(KernelValue(fn_input[1]))

SpecKernel == InitKernel /\ [][Precompute_Entry]_vars

\* the numerator of the sample point of entry i, which is
\* (i / (2 * R * N) * 2 - 1) * R = (i - R * N) / N
SamplePointTimesResolution(i) == i - KERNEL_RADIUS * KERNEL_RESOLUTION

(* ---------------- the radius fields, 32-bit cc_u32f ---------------- *)

RadiusOperandChoices == { 1, 2, 3, 147, 160, 10922, 21846, 30000 }

\* the rates whose radius, reduced modulo 2^32, is below 2^31 - 2^16
RadiusRateChoices ==
  { rate \in RadiusOperandChoices \X RadiusOperandChoices \X RadiusOperandChoices :
      Product32High(KERNEL_RADIUS,
                    CalculateRatio32(rate[1], actual_low_pass_sample_rate(rate))) < 32767 }

InitRadius ==
  /\ SessionIdle
  /\ fn_input \in RadiusRateChoices
  /\ fn_output = << >>

\* ClownResampler_LowLevel_Init(1 channel, rates), which is Adjust on a fresh
\* state, where cc_u32f has 32 bits
LowLevel_Adjust_Call == FunctionReturns(LowLevel_Init32(1, fn_input))

SpecRadius == InitRadius /\ [][LowLevel_Adjust_Call]_vars

(* ---------------- properties ---------------- *)

\* the frames one never-stopped call on the session's whole input delivers
Reference == OneShotFrames(channels_given, rates, pattern, source_frames, record_limit)

IsPrefix(s, t) == Len(s) <= Len(t) /\ \A i \in 1 .. Len(s) : s[i] = t[i]

ZeroRate(rate) == rate[1] = 0 \/ rate[2] = 0

\* C1: the frames that ClownResampler_HighLevel_Resample, called until it
\* returns true, and then ClownResampler_HighLevel_ResampleEnd, called until
\* it returns true, deliver are the same however the input callback splits
\* the stream into chunks: at every moment they are the first frames of, and
\* at the end they are all of, the frames of the stream resampled in one piece.
StreamingEquivalence ==
  api = "high" =>
    /\ IsPrefix(output, Reference)
    /\ phase = "done" => output = Reference

StreamingEquivalenceWitness ==
  /\ api = "high"
  /\ phase = "done"
  /\ rates = <<3, 2, 3>>
  /\ source_frames = MaxStreamFrames
  /\ input_chunks >= 3
  /\ Len(output) >= 3

\* C2: the frames delivered over a series of low-level calls, each ended by
\* the output callback returning 0 at an arbitrary frame, are at every moment
\* the first frames of, and once the input is used up all of, the frames one
\* never-stopped call delivers: no frame is delivered twice and none is skipped.
ResumptionAfterStop ==
  (api = "low" /\ adjusts = 0) =>
    /\ IsPrefix(output, Reference)
    /\ (pc = "idle" /\ resampler_input_buffer_frames_remaining = 0 /\ ever_stopped)
         => output = Reference

ResumptionAfterStopWitness ==
  /\ api = "low"
  /\ adjusts = 0
  /\ pc = "idle"
  /\ resampler_input_buffer_frames_remaining = 0
  /\ ever_stopped
  /\ ll_ret = "true"
  /\ rates = <<3, 2, 3>>
  /\ source_frames = 3
  /\ Len(output) = 2

\* C3: resampling K frames as consecutive chunks, each call given the
\* pointer advanced by the frames consumed so far and the same state,
\* delivers the frames one call on the K frames delivers.
ChunkedEqualsOneCall ==
  (api = "low" /\ adjusts = 0 /\ ~ever_stopped /\ pc = "idle"
     /\ resampler_input_buffer_frames_remaining = 0)
    => output = Reference

ChunkedEqualsOneCallWitness ==
  /\ api = "low"
  /\ adjusts = 0
  /\ ~ever_stopped
  /\ pc = "idle"
  /\ resampler_input_buffer_frames_remaining = 0
  /\ rates = <<2, 1, 1>>
  /\ source_frames = 3
  /\ chunk = 2
  /\ low_level.position_integer = 1
  /\ Len(output) = 2

\* C4: ClownResampler_LowLevel_Resample returns true exactly when it stopped
\* because position_integer reached or passed total_input_frames and false
\* exactly when it stopped because the output callback returned 0, and the
\* callback is not invoked again in a call after it returned 0.
LowLevelReturnValue ==
  api = "low" =>
    /\ ~late_callbacks
    /\ (pc = "idle" /\ ll_ret = "true") => (~callback_stopped /\ last_position >= chunk)
    /\ (pc = "idle" /\ ll_ret = "false") => callback_stopped
    /\ (pc = "idle" /\ callback_stopped) => ll_ret = "false"

LowLevelReturnValueWitness ==
  /\ api = "low"
  /\ pc = "idle"
  /\ ll_ret = "false"
  /\ callback_stopped
  /\ delivered = 2
  /\ last_position >= chunk

\* C5: when ClownResampler_LowLevel_Resample returns, *total_input_frames is
\* 0 if it returns true and the old value minus min(position_integer after
\* the last advance, old value) if it returns false; it never increases and
\* never goes below 0.
RemainingInputReported ==
  api = "low" =>
    /\ total_input_frames >= 0
    /\ total_input_frames <= chunk
    /\ (pc = "idle" /\ ll_ret = "true") => total_input_frames = 0
    /\ (pc = "idle" /\ ll_ret = "false")
         => total_input_frames = chunk - CLOWNRESAMPLER_MIN(last_position, chunk)

RemainingInputReportedWitness ==
  /\ api = "low"
  /\ pc = "idle"
  /\ ll_ret = "false"
  /\ chunk = 3
  /\ total_input_frames = 1
  /\ last_position = 2

\* C6: ClownResampler_HighLevel_Resample returns true exactly when it stopped
\* because the input callback returned 0 frames and false exactly when it
\* stopped because the output callback returned 0, and neither callback is
\* invoked again in a call after the output callback returned 0.
HighLevelReturnValue ==
  (api = "high" /\ hl_call = "user") =>
    /\ ~late_callbacks
    /\ pc = "idle" => hl_ret \in {"true", "false"}
    /\ (pc = "idle" /\ hl_ret = "true") => (input_stopped /\ ~callback_stopped)
    /\ (pc = "idle" /\ hl_ret = "false") => (callback_stopped /\ ~input_stopped)

HighLevelReturnValueWitness ==
  /\ api = "high"
  /\ hl_call = "user"
  /\ pc = "idle"
  /\ hl_ret = "false"
  /\ callback_stopped
  /\ delivered >= 1
  /\ input_buffer_start # input_buffer_end

\* C7: with nonzero input, output and low-pass rates, a
\* ClownResampler_LowLevel_Resample call whose output callback always returns
\* true terminates, returning true with *total_input_frames = 0.
CallTerminates ==
  (pc = "resample" /\ rates[1] # 0 /\ rates[2] # 0 /\ rates[3] # 0)
    ~> (pc = "idle" /\ ll_ret = "true" /\ total_input_frames = 0)

\* C8: ClownResampler_LowLevel_Resample called with *total_input_frames = 0
\* returns true in its first step, without invoking the output callback and
\* without changing the resampler state; and a high-level session whose
\* input callback returns 0 on its first invocation, followed by
\* ClownResampler_HighLevel_ResampleEnd, delivers no frame.
NullInput ==
  /\ [][(api = "low" /\ pc = "resample" /\ chunk = 0)
          => (/\ pc' = "idle"
              /\ ll_ret' = "true"
              /\ total_input_frames' = 0
              /\ low_level' = low_level
              /\ output' = output
              /\ delivered' = 0)]_vars
  /\ []((api = "high" /\ source_frames = 0) => output = << >>)

NullInputWitness ==
  /\ api = "low"
  /\ pc = "idle"
  /\ chunk = 0
  /\ ll_ret = "true"
  /\ delivered = 0
  /\ low_level.position_fractional # 0
  /\ Len(output) >= 1

\* C9 as stated: after Init or Adjust with a zero input or output rate,
\* increment is 0, the position is the same after every step of a call, no
\* input frame is consumed, and no access is out of range.
DegenerateRatesConsumeNothing ==
  [][(ZeroRate(rates) /\ pc = "resample")
       => (/\ low_level.increment = 0
           /\ low_level'.position_integer = low_level.position_integer
           /\ low_level'.position_fractional = low_level.position_fractional
           /\ total_input_frames' = total_input_frames
           /\ "undefined_read" \notin faults')]_vars

\* C9 as amended: after Init or Adjust with a zero input or output rate,
\* increment is 0 and the advance never moves the position:
\* position_fractional never changes, and position_integer and
\* *total_input_frames change only when the call returns, both by the carry
\* min(position_integer, *total_input_frames) that position_integer held on
\* entry; after Init with such rates nothing is consumed; no access is out
\* of range.
DegenerateRatesHoldPosition ==
  [][(ZeroRate(rates) /\ pc = "resample")
       => (/\ low_level.increment = 0
           /\ low_level'.position_fractional = low_level.position_fractional
           /\ IF pc' = "resample"
              THEN /\ low_level'.position_integer = low_level.position_integer
                   /\ total_input_frames' = total_input_frames
              ELSE LET carry == CLOWNRESAMPLER_MIN(low_level.position_integer,
                                                   total_input_frames)
                   IN  /\ low_level'.position_integer = low_level.position_integer - carry
                       /\ total_input_frames' = total_input_frames - carry
           /\ adjusts = 0 => /\ low_level'.position_integer = 0
                             /\ total_input_frames' = total_input_frames
           /\ "undefined_read" \notin faults')]_vars

DegenerateRatesHoldPositionWitness ==
  /\ ZeroRate(rates)
  /\ adjusts = 1
  /\ pc = "idle"
  /\ ll_ret = "false"
  /\ delivered >= 2
  /\ chunk = 2
  /\ total_input_frames = 1
  /\ low_level.position_integer = 0

\* C10: from a fresh Init with nonzero rates, one never-stopped call on K
\* frames delivers a number of frames that differs from
\* floor(K * output_rate / input_rate) by at most 1.
OutputLength ==
  (pc = "idle" /\ ll_ret = "true" /\ chunk = source_frames /\ delivered < record_limit)
    => delivered - (source_frames * rates[2]) \div rates[1] \in -1 .. 1

\* the session still runs at the rates of Init, the input and output rates
\* are equal and the low-pass rate is not below them
IdentityRates ==
  /\ adjusts = 0
  /\ rates[1] = rates[2]
  /\ rates[3] >= rates[1]

Distance(a, b) == IF a >= b THEN a - b ELSE b - a

\* C11 as stated: with input_rate = output_rate and low_pass_rate >=
\* input_rate, output frame n + integer_stretched_kernel_radius equals input
\* frame n to within 1 per sample.
IdentityAfterLatency ==
  IdentityRates =>
    \A n \in 0 .. Len(output) - low_level.integer_stretched_kernel_radius - 1 :
      \A c \in 1 .. low_level.channels :
        Distance(output[n + low_level.integer_stretched_kernel_radius + 1][c],
                 SourceSample(pattern, n, c - 1)) <= 1

\* C11 as amended: with input_rate = output_rate and low_pass_rate >=
\* input_rate, the output sequence equals the input sequence to within 1 per
\* sample with no latency: output frame n equals input frame n.
IdentityWithoutLatency ==
  IdentityRates =>
    \A n \in 0 .. Len(output) - 1 :
      \A c \in 1 .. low_level.channels :
        Distance(output[n + 1][c], SourceSample(pattern, n, c - 1)) <= 1

IdentityWithoutLatencyWitness ==
  /\ IdentityRates
  /\ rates[3] > rates[1]
  /\ api = "high"
  /\ phase = "done"
  /\ pattern = "ramp"
  /\ low_level.channels = 2
  /\ input_chunks >= 2
  /\ Len(output) = MaxStreamFrames

\* C12: when every input sample, the padding included, is 0, every sample
\* of every delivered frame is 0, whatever the rates, the number of
\* channels and the chunking.
SilenceInSilenceOut ==
  pattern = "silence" =>
    \A n \in 1 .. Len(output) : \A c \in 1 .. low_level.channels : output[n][c] = 0

SilenceInSilenceOutWitness ==
  /\ pattern = "silence"
  /\ api = "high"
  /\ phase = "done"
  /\ rates = <<3, 2, 3>>
  /\ low_level.channels = 2
  /\ input_chunks >= 2
  /\ ever_stopped
  /\ Len(output) >= 3

\* a call of ClownResampler_LowLevel_Resample is about to compute a frame
ComputingFrame ==
  pc = "resample" /\ ~EndOfInput(low_level.position_integer, total_input_frames)

\* C13: in every state reachable by Init, Adjust and Resample calls, every
\* kernel_index ClownResampler_ComputeFrame reads lanczos_kernel_table at is
\* below 2 * KERNEL_RADIUS * KERNEL_RESOLUTION: the assertion at the table
\* read never fails.
KernelIndexSafety ==
  /\ "assert_kernel_index" \notin faults
  /\ ComputingFrame =>
       \A t \in Taps(low_level, 0, low_level.position_fractional) :
         TapKernelIndex(low_level, low_level.position_fractional, t)
           \in 0 .. 2 * KERNEL_RADIUS * KERNEL_RESOLUTION - 1

KernelIndexSafetyWitness ==
  /\ ComputingFrame
  /\ adjusts = 1
  /\ delivered >= 1
  /\ low_level.position_fractional # 0
  /\ \E t \in Taps(low_level, 0, low_level.position_fractional) :
       TapKernelIndex(low_level, low_level.position_fractional, t)
         > 2 * KERNEL_RADIUS * KERNEL_RESOLUTION - KERNEL_RESOLUTION \div 2

\* the last sample of the region the caller of ClownResampler_LowLevel_Resample
\* must provide: *total_input_frames frames and
\* integer_stretched_kernel_radius frames of padding on each side
LastSampleOfRegion ==
  (total_input_frames + 2 * low_level.integer_stretched_kernel_radius)
    * low_level.channels - 1

\* C14: when ClownResampler_LowLevel_Resample is given total_input_frames
\* frames with integer_stretched_kernel_radius padding frames on each side,
\* every index sample_index + current_channel it reads is at most
\* (total_input_frames + 2 * integer_stretched_kernel_radius) * channels - 1.
InputIndexSafety ==
  ComputingFrame =>
    HighestSampleIndex(low_level, low_level.position_integer, low_level.position_fractional)
      <= LastSampleOfRegion

InputIndexSafetyWitness ==
  /\ ComputingFrame
  /\ delivered >= 1
  /\ low_level.position_fractional # 0
  /\ low_level.channels = 2
  /\ HighestSampleIndex(low_level, low_level.position_integer,
                        low_level.position_fractional)
       = LastSampleOfRegion - low_level.channels

\* the assertions of ClownResampler_HighLevel_Adjust that reject the rates
AdjustRejections == {"assert_maximum", "assert_capacity"}

\* the accesses outside input_buffer[0 .. capacity)
BufferOverruns ==
  {"read_out_of_range", "undefined_move", "offer_out_of_range", "undefined_write"}

\* C15: provided 2 * maximum_integer_stretched_kernel_radius * channels is
\* less than the capacity of input_buffer and every call of
\* ClownResampler_HighLevel_Adjust was accepted, every sample the low-level
\* engine reads, every range the refill moves and every range offered to
\* the input callback lies inside input_buffer.
HighLevelBufferSafety ==
  (/\ api = "high"
   /\ double_maximum_radius_in_samples < INPUT_BUFFER_COUNT
   /\ faults \cap AdjustRejections = {})
    => /\ faults \cap BufferOverruns = {}
       /\ ComputingFrame =>
            SampleIndicesInRange(low_level, INPUT_BUFFER_COUNT, input_base,
              low_level.position_integer, low_level.position_fractional)

HighLevelBufferSafetyWitness ==
  /\ api = "high"
  /\ faults \cap AdjustRejections = {}
  /\ adjusts = 1
  /\ low_level.integer_stretched_kernel_radius # 0
  /\ low_level.integer_stretched_kernel_radius < maximum_integer_stretched_kernel_radius
  /\ phase = "done"
  /\ input_chunks >= 2
  /\ Len(output) >= 2

\* the failed assertions: what a build with assertions reports
ReportedViolations ==
  {"assert_delta", "assert_channels", "assert_maximum", "assert_capacity",
   "assert_relative", "assert_kernel_index"}

\* C16: after a ClownResampler_HighLevel_Init that reported no violation,
\* the capacity of input_buffer is at least
\* 2 * integer_stretched_kernel_radius * channels + channels.
CapacityCheckedAtInit ==
  (api = "high" /\ adjusts = 0 /\ faults \cap ReportedViolations = {})
    => INPUT_BUFFER_COUNT
         >= 2 * low_level.integer_stretched_kernel_radius * low_level.channels
              + low_level.channels

\* C17: after an Init that reported no violation, channels is in
\* 1 .. MAXIMUM_CHANNELS, and it is what Init was given ever after.
ChannelRange ==
  faults \cap ReportedViolations = {}
    => /\ low_level.channels \in 1 .. MAXIMUM_CHANNELS
       /\ low_level.channels = channels_given

\* the step is a call of ClownResampler_HighLevel_Adjust that fails one of
\* its two assertions
RejectedAdjust ==
  /\ api = "high"
  /\ adjusts' = adjusts + 1
  /\ HighLevelAdjustFaults(maximum_integer_stretched_kernel_radius, low_level')
       \cap AdjustRejections # {}

\* C18: a call of ClownResampler_HighLevel_Adjust whose rates need a radius
\* above maximum_integer_stretched_kernel_radius, or above what the buffer
\* allows, reports the violation and leaves the whole state of the
\* resampler as it was.
FailedAdjustLeavesState ==
  [][RejectedAdjust
       => /\ faults' \cap AdjustRejections # {}
          /\ low_level' = low_level
          /\ UNCHANGED << buffer_vars, padding_vars >>]_vars

\* C19: maximum_integer_stretched_kernel_radius never changes after
\* ClownResampler_HighLevel_Init, and as long as no call of
\* ClownResampler_HighLevel_Adjust reported a violation,
\* low_level.integer_stretched_kernel_radius is at most
\* maximum_integer_stretched_kernel_radius, at every call of
\* ClownResampler_HighLevel_Resample in particular.
RadiusCeiling ==
  /\ [][maximum_integer_stretched_kernel_radius'
          = maximum_integer_stretched_kernel_radius]_vars
  /\ []((api = "high" /\ faults \cap ReportedViolations = {})
          => low_level.integer_stretched_kernel_radius
               <= maximum_integer_stretched_kernel_radius)

RadiusCeilingWitness ==
  /\ api = "high"
  /\ faults \cap ReportedViolations = {}
  /\ adjusts = 1
  /\ rates = <<1, 1, 1>>
  /\ maximum_integer_stretched_kernel_radius = 2 * KERNEL_RADIUS
  /\ hl_call = "padding"
  /\ input_chunks >= 1
  /\ pc = "resample"
  /\ delivered >= 1

\* the step is a call of ClownResampler_HighLevel_Adjust, the first since
\* Init, with an input rate above the output rate and a ratio between them
\* that is not wider than the ratio of the rates given to Init
AdjustWithinInitRatio ==
  /\ api = "high"
  /\ adjusts = 0
  /\ adjusts' = 1
  /\ rates[2] > 0
  /\ rates'[2] > 0
  /\ rates'[1] > rates'[2]
  /\ rates'[1] * rates[2] <= rates[1] * rates'[2]

\* C20: ClownResampler_HighLevel_Adjust to a downsampling configuration
\* whose input:output ratio is not wider than that of the rates given to
\* ClownResampler_HighLevel_Init passes the radius check, whatever the
\* low-pass rate.
AdjustRatioPrecondition ==
  [][AdjustWithinInitRatio => "assert_maximum" \notin faults']_vars

\* C21: ClownResampler_LowLevel_Adjust and ClownResampler_HighLevel_Adjust
\* leave channels, position_integer and position_fractional as they are,
\* and the high-level one also the content of input_buffer, its start and
\* end pointers and both padding counters: the next frame is computed at the
\* position reached before the rates changed.
AdjustCarriesPosition ==
  [][adjusts' # adjusts
       => /\ low_level'.channels = low_level.channels
          /\ low_level'.position_integer = low_level.position_integer
          /\ low_level'.position_fractional = low_level.position_fractional
          /\ UNCHANGED << buffer_vars, padding_vars, low_caller_vars >>]_vars

AdjustCarriesPositionWitness ==
  /\ api = "high"
  /\ adjusts = 1
  /\ pc = "idle"
  /\ hl_ret = "false"
  /\ rates = <<1, 2, 1>>
  /\ low_level.position_fractional # 0
  /\ input_buffer_start # input_buffer_end
  /\ output = << >>

\* floor(a * 2^16 / b) for a / b < 2^15, by exact long division
ExactRatio(a, b) ==
  (a \div b) * FIXED_POINT_FRACTIONAL_SIZE + BinaryQuotient(a % b, b, 16)

\* C22: for nonzero a and b whose quotient fits, with every intermediate
\* value held in an unsigned 32-bit integer,
\* ClownResampler_CalculateRatio(a, b) = floor(a * 2^16 / b).
RatioArithmetic ==
  fn_output # << >> => fn_output[1] = ExactRatio(fn_input[1], fn_input[2])

\* C23: Init with the rates (k * a, k * b, k * c) gives the same increment,
\* stretched_kernel_radius, integer_stretched_kernel_radius,
\* stretched_kernel_radius_delta, kernel_step_size and sample_normaliser as
\* Init with (a, b, c), for all 32-bit rates.
OnlyRatioMatters ==
  fn_output # << >> => fn_output[1] = LowLevel_Init32(1, fn_input[1])

\* the frames ClownResampler_PaddingCallback handed over so far: Init sets
\* trailing_padding_frames_remaining to maximum_integer_stretched_kernel_radius
\* and only the padding callback lowers it, by what it hands over
PaddingSupplied ==
  maximum_integer_stretched_kernel_radius - trailing_padding_frames_remaining

\* C24 as stated: over the ClownResampler_HighLevel_ResampleEnd calls of a
\* session the padding callback hands over integer_stretched_kernel_radius
\* frames in all and never more, and trailing_padding_frames_remaining ends
\* at 0, also when ClownResampler_HighLevel_Adjust changed the radius after
\* Init.
DrainAmount ==
  (api = "high" /\ faults \cap ReportedViolations = {})
    => /\ PaddingSupplied <= low_level.integer_stretched_kernel_radius
       /\ phase = "done" =>
            /\ PaddingSupplied = low_level.integer_stretched_kernel_radius
            /\ trailing_padding_frames_remaining = 0

\* the step invokes the input callback of ClownResampler_HighLevel_ResampleEnd
PaddingStep ==
  /\ hl_call = "padding"
  /\ \/ pc = "leading"
     \/ pc = "do" /\ input_buffer_start = input_buffer_end

\* the frames the input callback returned in that step
FramesHandedOver ==
  IF pc = "leading" THEN leading_padding_frames_needed - leading_padding_frames_needed'
  ELSE (input_buffer_end' - input_buffer_start') \div low_level.channels

\* C24 as amended: over the ClownResampler_HighLevel_ResampleEnd calls of a
\* session the padding callback hands over
\* maximum_integer_stretched_kernel_radius frames in all, the radius of
\* Init, and never more, and trailing_padding_frames_remaining ends at 0,
\* also when ClownResampler_HighLevel_Adjust changed the radius after Init:
\* the counter falls by what each invocation hands over and by nothing else.
DrainAmountOfInit ==
  /\ [][PaddingStep =>
          /\ trailing_padding_frames_remaining - trailing_padding_frames_remaining'
               = FramesHandedOver
          /\ trailing_padding_frames_remaining' >= 0]_vars
  /\ [][trailing_padding_frames_remaining' # trailing_padding_frames_remaining
          => PaddingStep]_vars
  /\ [](api = "high" =>
          /\ PaddingSupplied \in 0 .. maximum_integer_stretched_kernel_radius
          /\ phase = "resample" => PaddingSupplied = 0
          /\ phase = "done" =>
               PaddingSupplied = maximum_integer_stretched_kernel_radius)

DrainAmountOfInitWitness ==
  /\ api = "high"
  /\ phase = "done"
  /\ adjusts = 1
  /\ faults \cap ReportedViolations = {}
  /\ source_frames = MaxStreamFrames
  /\ low_level.integer_stretched_kernel_radius = KERNEL_RADIUS
  /\ PaddingSupplied = 2 * KERNEL_RADIUS
  /\ ever_stopped
  /\ Len(output) >= 1

\* C25: ClownResampler_HighLevel_ResampleEnd returns true only when
\* trailing_padding_frames_remaining is 0 and no unconsumed frame is left in
\* input_buffer, and then every frame has been delivered; it returns false
\* only when the output callback stopped it, and then it can be called again.
ResampleEndReturnValue ==
  (api = "high" /\ hl_call = "padding" /\ pc = "idle")
    => /\ hl_ret = "true" =>
            /\ trailing_padding_frames_remaining = 0
            /\ input_buffer_start = input_buffer_end
            /\ leading_padding_frames_needed = 0
            /\ phase = "done"
            /\ adjusts = 0 => output = Reference
       /\ hl_ret = "false" => callback_stopped /\ phase = "end"

ResampleEndReturnValueWitness ==
  /\ api = "high"
  /\ hl_call = "padding"
  /\ pc = "idle"
  /\ hl_ret = "true"
  /\ ever_stopped
  /\ rates = <<3, 2, 3>>
  /\ source_frames = MaxStreamFrames
  /\ Len(output) >= 3

\* C26: two resamplers initialised alike and driven alike deliver the same
\* frames and end in the same states, and no output depends on storage that
\* was never written: every step of the model is a function of the state
\* and of the callbacks' answers except the frame computed from storage
\* never written, so it is enough that, as long as no assertion has failed,
\* every frame computed reads only storage that Init, the input callback or
\* the caller has written and has one possible value.
Determinism ==
  faults \cap ReportedViolations = {}
    => /\ "undefined_read" \notin faults
       /\ ComputingFrame =>
            /\ ReadsDefined(low_level, InputStorage, input_base,
                            low_level.position_integer, low_level.position_fractional)
            /\ Cardinality(FrameChoices) = 1

DeterminismWitness ==
  /\ api = "high"
  /\ faults = {}
  /\ ComputingFrame
  /\ adjusts = 1
  /\ input_chunks >= 2
  /\ ever_stopped
  /\ Len(output) >= 2
  /\ Cardinality(DOMAIN input_buffer) < INPUT_BUFFER_COUNT

\* C27: with 32-bit accumulators, in ClownResampler_ComputeFrame no product
\* of an input sample and a kernel value, no sum of the accumulator and a
\* tap's term, and no product of the accumulator and sample_normaliser
\* leaves the signed 32-bit range, whatever the 16-bit input.
NoArithmeticOverflow ==
  (api = "none" /\ Len(fn_output) = 2)
    => IF fn_output[1] \in OverflowTaps
       THEN /\ ProductFits(ExtremeSample(fn_output[1]), OverflowKernelValue(fn_output[1]))
            /\ SumFits(fn_output[2],
                       TapTerm(ExtremeSample(fn_output[1]),
                               OverflowKernelValue(fn_output[1])))
       ELSE ProductFits(fn_output[2], OverflowResampler.sample_normaliser)

NoArithmeticOverflowWitness ==
  /\ api = "none"
  /\ Len(fn_output) = 3
  /\ fn_input[1] = <<630, 1, 1>>
  /\ Magnitude(fn_output[2]) * OverflowResampler.sample_normaliser > (MaxS32 \div 20) * 19

\* C28: with low_pass_filter_sample_rate at least the lower of the input
\* and output rates, a frame computed from a constant input of value v,
\* with no padding inside its window, is within 1 of v.
ConstantInConstantOut ==
  (api = "none" /\ Len(fn_input) = 3 /\ fn_input[1] \in ConstantRateChoices
     /\ Len(fn_output) = 1)
    => Distance(fn_output[1], fn_input[3]) <= 1

\* the state in which entry fn_input[1] of the table has been computed
EntryComputed == api = "none" /\ Len(fn_input) = 1 /\ Len(fn_output) = 1

\* C29 as stated: entry i of the table is within rounding of entry
\* 2 * R * N - 1 - i, the sample points of the two are mirror images about
\* 0, and entry R * N is exactly 65536.
KernelSymmetryAboutLast ==
  EntryComputed =>
    LET i == fn_input[1]
        mirror == KERNEL_TABLE_COUNT - 1 - i
    IN  /\ Distance(fn_output[1], KernelValue(mirror)) <= 1
        /\ SamplePointTimesResolution(i) = -SamplePointTimesResolution(mirror)
        /\ i = KERNEL_RADIUS * KERNEL_RESOLUTION
             => fn_output[1] = FIXED_POINT_FRACTIONAL_SIZE

\* C29 as amended: entry i of the table is within rounding of entry
\* 2 * R * N - i for every index i from 1, the sample points of the two are
\* mirror images about 0 (entry 0, at -R, has no mirror image in the table),
\* and entry R * N is exactly 65536.
KernelSymmetry ==
  EntryComputed =>
    LET i == fn_input[1]
        mirror == KERNEL_TABLE_COUNT - i
    IN  /\ i >= 1 =>
             /\ mirror \in KernelIndexChoices
             /\ Distance(fn_output[1], KernelValue(mirror)) <= 1
             /\ SamplePointTimesResolution(i) = -SamplePointTimesResolution(mirror)
        /\ i = KERNEL_RADIUS * KERNEL_RESOLUTION
             => fn_output[1] = FIXED_POINT_FRACTIONAL_SIZE

KernelSymmetryWitness ==
  /\ EntryComputed
  /\ fn_input[1] = KERNEL_RADIUS * KERNEL_RESOLUTION + KERNEL_RESOLUTION \div 2
  /\ fn_output[1] = KernelValue(KERNEL_RADIUS * KERNEL_RESOLUTION - KERNEL_RESOLUTION \div 2)
  /\ fn_output[1] > FIXED_POINT_FRACTIONAL_SIZE \div 2

\* the frames of the input the resampler has reported as processed before
\* the running ClownResampler_LowLevel_Resample: to its caller through
\* *total_input_frames, or, in the high-level API, by moving
\* input_buffer_start over the frames the refills obtained
FramesReportedConsumed ==
  IF api = "low" THEN FramesConsumed
  ELSE (source_position + PaddingSupplied)
         - (maximum_integer_stretched_kernel_radius - leading_padding_frames_needed)
         - (input_buffer_end - input_buffer_start) \div low_level.channels

\* the position of the frame about to be computed, in 16.16 frames of input
AbsolutePosition ==
  TO_FIXED_POINT_FROM_INTEGER(FramesReportedConsumed + low_level.position_integer)
    + low_level.position_fractional

\* C30: with no Adjust after Init, frame n since Init (n = 0, 1, ...) is
\* computed at the input position n * increment, whatever the chunks of
\* input and whenever the output callback stopped; with increment > 0 the
\* frame after it is computed at a higher position.
PositionLaw ==
  /\ [](( /\ adjusts = 0
          /\ low_level.channels # 0
          /\ ComputingFrame
          /\ Len(output) < record_limit)
         => AbsolutePosition = Len(output) * low_level.increment)
  /\ [][( /\ adjusts = 0
          /\ low_level.channels # 0
          /\ ComputingFrame
          /\ ComputingFrame'
          /\ Len(output') = Len(output) + 1
          /\ low_level.increment > 0)
         => AbsolutePosition' > AbsolutePosition]_vars

PositionLawWitness ==
  /\ api = "high"
  /\ adjusts = 0
  /\ ComputingFrame
  /\ Len(output) >= 3
  /\ Len(output) < record_limit
  /\ ever_stopped
  /\ input_chunks >= 2
  /\ low_level.position_fractional # 0
  /\ low_level.increment > FIXED_POINT_FRACTIONAL_SIZE

\* ClownResampler_LowLevel_Resample has returned cc_false and has not been
\* called since
ReturnedFalse == ll_ret = "false" /\ pc # "resample"

\* C31 as stated: when ClownResampler_LowLevel_Resample returns false,
\* position_integer is 0 and the whole frames consumed have been subtracted
\* from *total_input_frames, for every increment and every length of the
\* remaining input.
StopResetsPosition ==
  ReturnedFalse
    => /\ low_level.position_integer = 0
       /\ total_input_frames = chunk - CLOWNRESAMPLER_MIN(last_position, chunk)

\* C31 as amended: when ClownResampler_LowLevel_Resample returns false,
\* min(position_integer, *total_input_frames) has been subtracted from both
\* position_integer and *total_input_frames, so position_integer is 0 when
\* the advance stayed within the remaining input, and otherwise
\* *total_input_frames is 0 and position_integer holds the frames by which
\* the advance went past it.
StopCarriesPosition ==
  ReturnedFalse
    => /\ low_level.position_integer
            = last_position - CLOWNRESAMPLER_MIN(last_position, chunk)
       /\ total_input_frames = chunk - CLOWNRESAMPLER_MIN(last_position, chunk)
       /\ low_level.position_integer = 0 \/ total_input_frames = 0
       /\ last_position <= chunk => low_level.position_integer = 0

StopCarriesPositionWitness ==
  /\ api = "low"
  /\ ReturnedFalse
  /\ adjusts = 0
  /\ low_level.position_integer > 0
  /\ total_input_frames = 0
  /\ chunk >= 2
  /\ Len(output) >= 2

\* the frames the refills of ClownResampler_HighLevel_Resample have obtained
\* from the input callbacks: all they handed over but the leading frames
FramesObtained ==
  (source_position + PaddingSupplied)
    - (maximum_integer_stretched_kernel_radius - leading_padding_frames_needed)

\* C32: with an output callback that never stops, the frames delivered by
\* one ClownResampler_HighLevel_Resample and one
\* ClownResampler_HighLevel_ResampleEnd are the frames one
\* ClownResampler_LowLevel_Resample delivers over the same K frames between
\* zero padding, and the engine is handed every frame the refills obtained
\* once, K frames in all, also when K is below the radius.
HighLevelEqualsLowLevel ==
  /\ []((api = "high" /\ adjusts = 0 /\ ~ever_stopped /\ phase = "done")
          => /\ output = Reference
             /\ FramesObtained = source_frames
             /\ FramesReportedConsumed = source_frames)
  /\ [][(api = "high" /\ adjusts = 0 /\ ~ever_stopped /\ low_level.channels # 0
           /\ pc # "resample" /\ pc' = "resample")
          => /\ FramesReportedConsumed + chunk' = FramesObtained
             /\ FramesObtained <= source_frames]_vars

HighLevelEqualsLowLevelWitness ==
  /\ api = "high"
  /\ adjusts = 0
  /\ ~ever_stopped
  /\ phase = "done"
  /\ source_frames = 2
  /\ source_frames < low_level.integer_stretched_kernel_radius
  /\ pattern # "silence"
  /\ Len(output) >= 2
  /\ output = Reference

\* sample c of frame j of the producer's stream: zeros before its first
\* frame, and after its last the zeros of the padding callback
StreamSample(j, c) ==
  IF j < 0 \/ j >= source_frames THEN 0 ELSE SourceSample(pattern, j, c)

\* C33: whenever ClownResampler_HighLevel_Resample has invoked the engine,
\* the samples of input_buffer from maximum_integer_stretched_kernel_radius
\* frames before input_buffer_start to the same number of frames after
\* input_buffer_end are consecutive frames of the stream, in order, with
\* the first frame not yet processed at input_buffer_start.
StreamContinuity ==
  (api = "high" /\ pc = "resample" /\ low_level.channels # 0)
    => \A i \in (input_buffer_start - maximum_radius_in_samples)
                .. (input_buffer_end + maximum_radius_in_samples - 1) :
         Stored(input_buffer, i)
           = StreamSample(FramesReportedConsumed
                            + (i - input_buffer_start) \div low_level.channels,
                          i % low_level.channels)

StreamContinuityWitness ==
  /\ api = "high"
  /\ pc = "resample"
  /\ hl_call = "user"
  /\ pattern = "ramp"
  /\ low_level.channels = 2
  /\ ~ever_stopped
  /\ input_chunks >= 3
  /\ FramesReportedConsumed >= 1
  /\ source_position = MaxStreamFrames

\* the frames the input callback handed over in a step
FramesHandedOverByCallback ==
  (source_position' - source_position)
    + (trailing_padding_frames_remaining - trailing_padding_frames_remaining')

\* C34: while leading_padding_frames_needed > 0
\* ClownResampler_HighLevel_Resample does not run the engine and no frame
\* has been delivered; every round of the leading loop asks the input
\* callback for leading_padding_frames_needed frames, the counter falls by
\* the frames handed over and never below 0, and when the callback hands
\* over none the call returns true with no frame delivered.
ReadAheadPhase ==
  /\ [](api = "high" =>
          /\ leading_padding_frames_needed >= 0
          /\ leading_padding_frames_needed > 0 =>
               /\ pc \in {"idle", "leading"}
               /\ delivered = 0
               /\ adjusts = 0 => output = << >>)
  /\ [][pc = "leading" =>
          /\ LeadingRequest = leading_padding_frames_needed
          /\ FramesHandedOverByCallback <= LeadingRequest
          /\ leading_padding_frames_needed'
               = leading_padding_frames_needed - FramesHandedOverByCallback
          /\ output' = output
          /\ FramesHandedOverByCallback = 0
               => pc' = "idle" /\ hl_ret' = "true" /\ delivered' = 0]_vars

ReadAheadPhaseWitness ==
  /\ api = "high"
  /\ pc = "idle"
  /\ hl_call = "padding"
  /\ hl_ret = "false"
  /\ input_chunks >= 2
  /\ source_frames < maximum_integer_stretched_kernel_radius
  /\ source_frames >= 2
  /\ leading_padding_frames_needed = 0
  /\ Len(output) >= 1

\* C35: whenever ClownResampler_ComputeFrame runs, in any session of Init,
\* Adjust and Resample calls with any rates, min_relative and max_relative
\* are at most integer_stretched_kernel_radius.
ConvolutionBounds ==
  ComputingFrame => ComputeFrameAssertions(low_level, low_level.position_fractional)

\* C36: after every ClownResampler_LowLevel_Adjust with nonzero rates,
\* integer_stretched_kernel_radius is the ceiling of stretched_kernel_radius /
\* 2^16, stretched_kernel_radius_delta is integer_stretched_kernel_radius *
\* 2^16 - stretched_kernel_radius and lies in 0 .. 2^16 - 1, and the kernel is
\* never compressed: stretched_kernel_radius >= KERNEL_RADIUS * 2^16 and
\* kernel_step_size <= KERNEL_RESOLUTION.
RadiusFields ==
  fn_output # << >> =>
    LET resampler == fn_output[1]
    IN  /\ resampler.integer_stretched_kernel_radius
             = (resampler.stretched_kernel_radius + FIXED_POINT_FRACTIONAL_SIZE - 1)
                 \div FIXED_POINT_FRACTIONAL_SIZE
        /\ resampler.stretched_kernel_radius_delta
             = resampler.integer_stretched_kernel_radius * FIXED_POINT_FRACTIONAL_SIZE
                 - resampler.stretched_kernel_radius
        /\ resampler.stretched_kernel_radius_delta >= 0
        /\ resampler.stretched_kernel_radius_delta < FIXED_POINT_FRACTIONAL_SIZE
        /\ resampler.stretched_kernel_radius >= KERNEL_RADIUS * FIXED_POINT_FRACTIONAL_SIZE
        /\ resampler.kernel_step_size <= KERNEL_RESOLUTION

\* the same where no product is reduced (holds; not the claim's formula)
RadiusFieldsOfModerateRates ==
  (fn_output # << >>
     /\ KERNEL_RADIUS * (CalculateRatio32(fn_input[1], actual_low_pass_sample_rate(fn_input))
                           \div FIXED_POINT_FRACTIONAL_SIZE) < 32767)
    => RadiusFields

\* C37: position_integer = 0 and position_fractional = 0 immediately after
\* Init, and 0 <= position_fractional < 2^16 after every return of
\* ClownResampler_LowLevel_Resample and at every invocation of the output
\* callback (which the loop calls after it has advanced the position).
PositionInvariants ==
  /\ (low_level.position_integer = 0 /\ low_level.position_fractional = 0)
  /\ [](( /\ low_level.position_fractional >= 0
          /\ low_level.position_fractional < FIXED_POINT_FRACTIONAL_SIZE
          /\ low_level.position_integer >= 0))
  /\ [][(adjusts = 0 /\ Len(output) = 0 /\ Len(output') = 0 /\ delivered' = 0 /\ ~ever_stopped')
         => /\ low_level'.position_fractional = 0
            /\ low_level'.position_integer <= low_level.position_integer]_vars

PositionInvariantsWitness ==
  /\ api = "low"
  /\ ll_ret = "false"
  /\ pc = "idle"
  /\ Len(output) >= 3
  /\ Len(output) < record_limit
  /\ low_level.position_fractional # 0
  /\ low_level.increment % FIXED_POINT_FRACTIONAL_SIZE # 0
  /\ Len(output) * low_level.increment >= 2 * FIXED_POINT_FRACTIONAL_SIZE

\* C38: ClownResampler_LowLevel_Resample never writes the caller's input
\* region (nor the kernel table, which it only reads), and of the low-level
\* state it changes only position_integer and position_fractional: channels
\* and the six fields set by Adjust are unchanged by every step of a call.
ResampleTouchesOnlyPosition ==
  [][pc = "resample"
       => /\ low_level' = [low_level EXCEPT
                             !.position_integer = low_level'.position_integer,
                             !.position_fractional = low_level'.position_fractional]
          /\ resampler_input_buffer' = resampler_input_buffer
          /\ input_buffer' = input_buffer]_vars

ResampleTouchesOnlyPositionWitness ==
  /\ api = "low"
  /\ adjusts = 1
  /\ pc = "idle"
  /\ ll_ret = "true"
  /\ Len(output) >= 2
  /\ low_level.position_fractional # 0
  /\ low_level.integer_stretched_kernel_radius > KERNEL_RADIUS
  /\ faults = {}
====
